---- MODULE Spec2Model ----
(***************************************************************************)
(* Client-side realtime video-list synchronisation of text-2-reel-mobile.  *)
(*                                                                         *)
(* Two implementations of the video store live in the repository, the hook *)
(* useVideos (src/hooks/useVideos.ts) and the context VideoProvider        *)
(* (src/contexts/VideoContext.tsx).  The variable impl says which of the   *)
(* two a behaviour follows; the two share their state shape.               *)
(*                                                                         *)
(* JavaScript values are modelled as strings: Undef is an absent key,      *)
(* Null is null, "" the empty string, "0" the number 0, T and F the        *)
(* booleans.  A record (row, broadcast payload, collection entry) has the  *)
(* keys id, user_id, prompt, status, bucket_path, signed_url,              *)
(* signed_url_loading and duration.  The keys created_at, completed_at,    *)
(* error_message and signed_url_created_at of the source are left out:     *)
(* they are copied exactly like duration and no handler branches on them.  *)
(***************************************************************************)
EXTENDS Integers, Sequences, FiniteSets, Bags, TLC

\* ------------------------------------------------------------ bounds
\* number of distinct video ids the backend and the broadcasts speak about
NumIds == 1
\* number of asynchronous handler instances that may be in flight together
MaxTasks == 2

\* ------------------------------------------------- program constants
VIDEOS_PER_PAGE == 10
VIDEO_FETCH_CHUNK_SIZE == 5

\* ------------------------------------------------- JavaScript values
Undef == "undefined"
Null == "null"
T == "true"
F == "false"

\* the falsy values of JavaScript that occur here
Falsy == {Undef, Null, "", "0", F}

Truthy(x) == x \notin Falsy

\* a || b
Or(a, b) == IF Truthy(a) THEN a ELSE b

\* a ?? b
Nullish(a, b) == IF a \in {Undef, Null} THEN b ELSE a

\* { ...v, ...record }: a key present in record wins, an absent key keeps v's
Spread(v, record) ==
    LET P(k) == IF record[k] = Undef THEN v[k] ELSE record[k]
    IN [id |-> P("id"), user_id |-> P("user_id"), prompt |-> P("prompt"),
        status |-> P("status"), bucket_path |-> P("bucket_path"),
        signed_url |-> P("signed_url"),
        signed_url_loading |-> P("signed_url_loading"),
        duration |-> P("duration")]

\* the entries of a collection
Entries(prev) == {prev[i] : i \in 1..Len(prev)}

\* prev.map((v) => v.id === id ? g(v) : v), g given as a function on the
\* entries of prev
MapById(prev, id, g) ==
    [i \in 1..Len(prev) |-> IF prev[i].id = id THEN g[prev[i]] ELSE prev[i]]

\* prev.find((v) => v.id === id) is defined
Exists(prev, id) == \E i \in 1..Len(prev) : prev[i].id = id

\* prev.find((v) => v.id === id), for an id that is present
Find(prev, id) == prev[CHOOSE i \in 1..Len(prev) : prev[i].id = id /\ \A j \in 1..(i - 1) : prev[j].id # id]

\* prev.filter((v) => !ids.includes(v.id))
FilterOut(prev, ids) ==
    LET keep(v) == v.id \notin ids
    IN SelectSeq(prev, keep)

IdsOf(s) == {s[i].id : i \in 1..Len(s)}

\* ------------------------------------------------------------ data
Ids == {ToString(i) : i \in 1..NumIds}

UserA == "A"

\* A row of the backend table videos, as select(...) returns it: it has no
\* key signed_url_loading and a bucket_path once it is completed; its column
\* signed_url is null, or holds a URL stored earlier for a completed row.
Row(id, status, url) ==
    [id |-> id, user_id |-> UserA, prompt |-> "p", status |-> status,
     bucket_path |-> IF status = "completed" THEN "path" ELSE Null,
     signed_url |-> url, signed_url_loading |-> Undef,
     duration |-> "30"]

Statuses == {"processing", "completed", "failed"}

Rows(id) == {Row(id, s, Null) : s \in Statuses} \cup {Row(id, "completed", "dburl")}

\* A compact broadcast: the id, the owner and the status only.
Compact(row) ==
    [row EXCEPT !.prompt = Undef, !.bucket_path = Undef, !.signed_url = Undef,
                !.duration = Undef]

\* The payloads the realtime channel broadcasts for an id: the full row, or
\* a compact form of it.
Payloads(id) == Rows(id) \cup {Compact(r) : r \in Rows(id)}

\* ------------------------------------- the setVideos updaters (pure)

\* useVideos, INSERT, entry present
useVideos_InsertExisting(v, record) ==
    [Spread(v, record) EXCEPT !.signed_url_loading =
        Nullish(v.signed_url_loading,
                IF record.status = "completed" /\ ~Truthy(record.signed_url)
                THEN T ELSE F)]

\* VideoProvider, INSERT, entry present
VideoProvider_InsertExisting(v, record) ==
    [Spread(v, record) EXCEPT
        !.signed_url = Or(record.signed_url, Or(v.signed_url, Null)),
        !.signed_url_loading = F]

\* both: the defaulted record of an INSERT for a new id
NewVideoRecord(record) ==
    [id |-> record.id,
     user_id |-> Or(record.user_id, ""),
     prompt |-> Or(record.prompt, ""),
     status |-> Or(record.status, "processing"),
     bucket_path |-> Or(record.bucket_path, Null),
     signed_url |-> Or(record.signed_url, Null),
     signed_url_loading |-> F,
     duration |-> Or(record.duration, Null)]

InsertExisting(im, v, record) ==
    IF im = "useVideos" THEN useVideos_InsertExisting(v, record)
    ELSE VideoProvider_InsertExisting(v, record)

\* mutant: the INSERT updater without the lookup of the id
InsertUpdater_NoLookup(im, prev, record) == <<NewVideoRecord(record)>> \o prev

\* mutant: an INSERT for a held id moves the merged entry to the front
InsertUpdater_ToFront(im, prev, record) ==
    IF Exists(prev, record.id)
    THEN LET i == CHOOSE k \in 1..Len(prev) : prev[k].id = record.id
         IN <<InsertExisting(im, prev[i], record)>> \o FilterOut(prev, {record.id})
    ELSE <<NewVideoRecord(record)>> \o prev

\* the updater of the INSERT handler
InsertUpdater(im, prev, record) ==
    IF Exists(prev, record.id)
    THEN MapById(prev, record.id, [v \in Entries(prev) |-> InsertExisting(im, v, record)])
    ELSE <<NewVideoRecord(record)>> \o prev

\* useVideos: the write of the INSERT handler's point fetch
InsertRefetchUpdater(prev, data) ==
    IF Exists(prev, data.id)
    THEN MapById(prev, data.id, [v \in Entries(prev) |-> [data EXCEPT !.signed_url_loading = F]])
    ELSE <<[data EXCEPT !.signed_url_loading = F]>> \o prev

\* mutant: the merge without the clearing of a stale URL
useVideos_UpdateMerge_NoClear(v, record) == Spread(v, record)

\* useVideos, UPDATE: the merge of one entry
useVideos_UpdateMerge(v, record) ==
    LET merged == Spread(v, record)
    IN IF Truthy(record.status) /\ record.status # "completed"
       THEN [merged EXCEPT !.signed_url = Null, !.signed_url_loading = F]
       ELSE IF record.status = "completed" /\ Truthy(record.bucket_path)
            THEN [merged EXCEPT !.signed_url_loading =
                     Nullish(v.signed_url_loading, Nullish(merged.signed_url_loading, F))]
            ELSE merged

\* VideoProvider, UPDATE: the merge of one entry (no URL to generate)
VideoProvider_UpdateMerge(v, record) ==
    LET merged == Spread(v, record)
    IN IF Truthy(record.status) /\ record.status # "completed"
       THEN [merged EXCEPT !.signed_url = Null, !.signed_url_loading = F]
       ELSE [merged EXCEPT !.signed_url = Or(record.signed_url, Or(v.signed_url, Null)),
                           !.signed_url_loading = F]

\* useVideos, UPDATE: refetch the full row?
shouldRefetch(record) ==
    \/ ~Truthy(record.prompt)
    \/ ~Truthy(record.duration)
    \/ record.status = "completed"
    \/ record.status = "failed"
    \/ Truthy(record.bucket_path)

\* VideoProvider, UPDATE: resolve a signed URL?
shouldGenerateSignedUrl(record) ==
    /\ record.status = "completed"
    /\ Truthy(record.bucket_path)
    /\ ~Truthy(record.signed_url)

\* mutant: a row processed without the resolver's URL
ProcessVideo_KeepsUrl(video, ok) == [video EXCEPT !.signed_url_loading = F]

\* mutant: a failed resolution drops the URL the row had
ProcessVideo_FailureClears(video, ok) ==
    IF video.status = "completed" /\ Truthy(video.bucket_path) /\ ok
    THEN [video EXCEPT !.signed_url = "url", !.signed_url_loading = F]
    ELSE [video EXCEPT !.signed_url = Null, !.signed_url_loading = F]

\* processVideosWithSignedUrls for one row; ok says whether the resolver
\* succeeded (it is only called for a completed row with a bucket_path)
ProcessVideo(video, ok) ==
    IF video.status = "completed" /\ Truthy(video.bucket_path)
    THEN IF ok
         THEN [video EXCEPT !.signed_url = "url", !.signed_url_loading = F]
         ELSE [video EXCEPT !.signed_url = Nullish(video.signed_url, Null),
                            !.signed_url_loading = F]
    ELSE [video EXCEPT !.signed_url = Null, !.signed_url_loading = F]

\* ------------------------------------------------------------ state
VARIABLES
    impl,                 \* "useVideos" or "VideoProvider"
    backend,              \* the user's rows of the table videos, in query order
    authLoading,          \* AuthProvider: loading
    user,                 \* AuthProvider: user (NoUser or a user id)
    depsChanged,          \* a dependency of the store's effect changed
    videos,               \* useState<VideoRecord[]>([])
    loading,              \* useState(true)
    loadingMore,          \* useState(false)
    error,                \* useState<string | null>(null)
    hasMore,              \* useState(true)
    offsetRef,            \* useRef(0)
    effUser,              \* the user the running effect instance closed over
    unsubscribeRealtime,  \* effect closure: let unsubscribeRealtime
    isSubscribed,         \* effect closure: let isSubscribed
    listening,            \* effect closure: authListener is registered
    channels,             \* the realtime channels the client holds
    tasks,                \* the asynchronous handler instances in flight (a bag)
    probe,                \* replay experiment: the event and the state after one application
    last                  \* history: the step taken last

\* useBalance, one instance of the hook
VARIABLES
    balance,              \* useState<number | null>(null)
    balanceLoading,       \* useState(true)
    fetchingRef,          \* useRef(false)
    balanceTasks,         \* the queries of fetchBalance in flight
    balanceQueryFor,      \* the user id of the query started last: .eq("id", user.id)
    balanceUser,          \* the user the running effect instance closed over
    balanceUnsubscribe,   \* effect closure: let unsubscribeRealtime
    balanceIsSubscribed,  \* effect closure: let isSubscribed
    balanceListening,     \* effect closure: authListener is registered
    balanceChannels,      \* the realtime channels of the hook
    balanceDeps           \* a dependency of the hook's effect changed

\* processVideosWithSignedUrls, one call followed resolution by resolution
VARIABLES
    procRows,             \* videosArray
    procAt,               \* the loop index i
    procPending,          \* indices whose getSignedUrlAndDownload is in flight
    procWaiting,          \* the call is in `await Promise.all` of the chunk at i
    chunkResults,         \* what the map callbacks of the chunk returned so far
    updatedVideos         \* updatedVideos

procVars == <<procRows, procAt, procPending, procWaiting, chunkResults, updatedVideos>>

\* DashboardScreen, the creation of a video
VARIABLES
    creatingVideo,        \* useState(false)
    isMountedRef,         \* useRef(true)
    abortControllerRef,   \* 0 for null, or the number of the request it controls
    requests,             \* the runs of handleConfirmVoiceAndSubmit past the fetch call
    alert                 \* what Alert.alert showed last

createVars == <<creatingVideo, isMountedRef, abortControllerRef, requests, alert>>

\* the supabase client that the two stores import
VARIABLES
    notifying             \* the stores whose auth listener is still to be called
                          \* with the SIGNED_OUT event that is being published

clientVars == <<notifying>>

balVars == <<balance, balanceLoading, fetchingRef, balanceTasks, balanceQueryFor,
             balanceUser,
             balanceUnsubscribe, balanceIsSubscribed, balanceListening,
             balanceChannels, balanceDeps>>

authVars == <<authLoading, user, depsChanged>>
pageVars == <<loading, loadingMore, error, hasMore, offsetRef>>
subVars == <<effUser, unsubscribeRealtime, isSubscribed, listening, channels>>
vars == <<impl, backend, authVars, videos, pageVars, subVars, tasks, probe, last,
          balVars, procVars, createVars, clientVars>>

NoUser == "none"
Impls == {"useVideos", "VideoProvider"}

\* the values of unsubscribeRealtime
NotSet == [kind |-> "undefined", n |-> 0]
Noop == [kind |-> "noop", n |-> 0]
TeardownOf(n) == [kind |-> "teardown", n |-> n]

NoRec == [id |-> Undef, user_id |-> Undef, prompt |-> Undef, status |-> Undef,
          bucket_path |-> Undef, signed_url |-> Undef,
          signed_url_loading |-> Undef, duration |-> Undef]

\* An asynchronous handler instance suspended at an await, with what its
\* closure holds: the user, the id and event record it works on, the row a
\* point fetch returned, the direction and offset of a page fetch and the
\* rows it got, the ids of a delete.
Task(kind, u, id, rec) ==
    [kind |-> kind, user |-> u, id |-> id, rec |-> rec, data |-> NoRec,
     reset |-> FALSE, from |-> 0, rows |-> <<>>, ids |-> {}]

InFlight == BagToSet(tasks)
Started(t) == tasks (+) SetToBag({t})
Finished(t) == tasks (-) SetToBag({t})
Continued(t, u) == (tasks (-) SetToBag({t})) (+) SetToBag({u})
Room == BagCardinality(tasks) < MaxTasks

\* history: the operation, the id it was about, whether the case of interest
\* held before the step (said at each action), and one more value; sign is
\* a second flag about the event of a broadcast handler (said there)
Did(op, id, pre, arg) ==
    [op |-> op, id |-> id, pre |-> pre, arg |-> arg, sign |-> FALSE]

DidSign(op, id, pre, arg, sign) == [Did(op, id, pre, arg) EXCEPT !.sign = sign]

\* a point fetch's and the resolver's answer to one handler run
Answer(ok, data, sign) == [ok |-> ok, data |-> data, sign |-> sign]

NoProbe == [kind |-> "none", rec |-> NoRec, answer |-> Answer(FALSE, NoRec, FALSE),
            n |-> 0, once |-> <<>>]

\* the state after the first render: AuthProvider is still loading, the
\* store's effect has run and returned at `if (authLoading) return`
InitStore ==
    /\ impl \in Impls
    /\ authLoading = TRUE
    /\ user = NoUser
    /\ depsChanged = FALSE
    /\ videos = <<>>
    /\ loading = TRUE
    /\ loadingMore = FALSE
    /\ error = Null
    /\ hasMore = TRUE
    /\ offsetRef = 0
    /\ effUser = NoUser
    /\ unsubscribeRealtime = NotSet
    /\ isSubscribed = FALSE
    /\ listening = FALSE
    /\ channels = {}
    /\ tasks = EmptyBag
    /\ probe = NoProbe
    /\ last = Did("Init", Undef, FALSE, Undef)
    /\ balance = Null
    /\ balanceLoading = TRUE
    /\ fetchingRef = FALSE
    /\ balanceTasks = 0
    /\ balanceQueryFor = NoUser
    /\ balanceUser = NoUser
    /\ balanceUnsubscribe = NotSet
    /\ balanceIsSubscribed = FALSE
    /\ balanceListening = FALSE
    /\ balanceChannels = {}
    /\ balanceDeps = FALSE
    /\ procRows = <<>>
    /\ procAt = 0
    /\ procPending = {}
    /\ procWaiting = FALSE
    /\ chunkResults = <<>>
    /\ updatedVideos = <<>>
    /\ creatingVideo = FALSE
    /\ isMountedRef = TRUE
    /\ abortControllerRef = 0
    /\ requests = <<>>
    /\ alert = "none"
    /\ notifying = {}

\* the backend's table is not followed: queries answer with any page
Init == InitStore /\ backend = <<>>

\* ------------------------------------------- subscription (closures)

\* supabase.channel(topic, ...): a new channel object, not yet joined
FreshChannel(chans) == CHOOSE n \in 1..(Cardinality(chans) + 1) : \A c \in chans : c.n # n

\* subscribeAndFetch(user): <<the returned teardown, isSubscribed, channels>>
subscribeAndFetch(u, isSub, chans) ==
    IF isSub
    THEN <<Noop, isSub, chans>>
    ELSE LET n == FreshChannel(chans)
         IN <<TeardownOf(n), isSub,
              chans \cup {[n |-> n, topic |-> u, st |-> "joining"]}>>

\* mutant: a teardown that leaves the channel with the client
CallTeardown_KeepChannel(td, isSub, chans) == <<FALSE, chans>>

\* calling unsubscribeRealtime(): <<isSubscribed, channels>>
CallTeardown(td, isSub, chans) ==
    IF td.kind = "teardown"
    THEN <<FALSE, {c \in chans : c.n # td.n}>>
    ELSE <<isSub, chans>>

\* ------------------------------------------------------ AuthProvider

\* initializeAuth(): getSession() answers with a session or with none
AuthInitialize ==
    /\ authLoading
    /\ \E u \in {NoUser, UserA} : user' = u
    /\ authLoading' = FALSE
    /\ depsChanged' = TRUE
    /\ last' = Did("AuthInitialize", Undef, FALSE, Undef)
    /\ UNCHANGED <<impl, balVars, procVars, createVars, clientVars, backend, videos, pageVars, subVars, tasks, probe>>

\* mutant: a listener that tears the subscription down on SIGNED_OUT and
\* resets nothing
StoreAuthListener_KeepsVideos(event, s) ==
    IF s # NoUser /\ unsubscribeRealtime # NotSet /\ event = "TOKEN_REFRESHED"
    THEN UNCHANGED <<videos, pageVars, subVars>>
    ELSE LET down == IF unsubscribeRealtime # NotSet
                     THEN CallTeardown(unsubscribeRealtime, isSubscribed, channels)
                     ELSE <<isSubscribed, channels>>
         IN IF s # NoUser /\ event # "TOKEN_REFRESHED"
            THEN LET up == subscribeAndFetch(s, down[1], down[2])
                 IN /\ unsubscribeRealtime' = up[1]
                    /\ isSubscribed' = up[2]
                    /\ channels' = up[3]
                    /\ UNCHANGED <<videos, pageVars, effUser, listening>>
            ELSE /\ unsubscribeRealtime' = NotSet
                 /\ isSubscribed' = down[1]
                 /\ channels' = down[2]
                 /\ UNCHANGED <<videos, pageVars, effUser, listening>>

\* the store's onAuthStateChange callback; s is session?.user
StoreAuthListener(event, s) ==
    IF s # NoUser /\ unsubscribeRealtime # NotSet /\ event = "TOKEN_REFRESHED"
    THEN UNCHANGED <<videos, pageVars, subVars>>
    ELSE LET down == IF unsubscribeRealtime # NotSet
                     THEN CallTeardown(unsubscribeRealtime, isSubscribed, channels)
                     ELSE <<isSubscribed, channels>>
         IN IF s # NoUser /\ event # "TOKEN_REFRESHED"
            THEN LET up == subscribeAndFetch(s, down[1], down[2])
                 IN /\ unsubscribeRealtime' = up[1]
                    /\ isSubscribed' = up[2]
                    /\ channels' = up[3]
                    /\ UNCHANGED <<videos, pageVars, effUser, listening>>
            ELSE IF event = "SIGNED_OUT"
                 THEN /\ unsubscribeRealtime' = NotSet
                      /\ isSubscribed' = down[1]
                      /\ channels' = {}
                      /\ videos' = <<>>
                      /\ offsetRef' = 0
                      /\ hasMore' = TRUE
                      /\ UNCHANGED <<loading, loadingMore, error, effUser, listening>>
                 ELSE /\ unsubscribeRealtime' = NotSet
                      /\ isSubscribed' = down[1]
                      /\ channels' = down[2]
                      /\ UNCHANGED <<videos, pageVars, effUser, listening>>

\* supabase.auth publishes an event: AuthProvider's callback stores the
\* session's user, then the store's callback runs if it is registered.  The
\* effect's dependency `user` is compared by identity: fresh says whether
\* the session carries a user object other than the one stored (a session
\* parsed from a token response does).  pre is recorded in the history.
AuthStateChange(event, s, fresh, pre) ==
    /\ user' = s
    /\ authLoading' = FALSE
    /\ depsChanged' = (\/ depsChanged
                       \/ authLoading
                       \/ (s = NoUser) # (user = NoUser)
                       \/ (s # NoUser /\ fresh))
    /\ IF listening
       THEN StoreAuthListener(event, s)
       ELSE UNCHANGED <<videos, pageVars, subVars>>
    /\ last' = Did(event, Undef, pre, Undef)
    /\ UNCHANGED <<impl, balVars, procVars, createVars, clientVars, backend, tasks, probe>>

\* pre: a subscribe attempt of this effect instance has not reached SUBSCRIBED
SignedIn ==
    \E fresh \in BOOLEAN :
        AuthStateChange("SIGNED_IN", UserA, fresh,
            unsubscribeRealtime # NotSet /\ \E c \in channels : c.st = "joining")

\* pre: the store holds a ready subscription for the current user
TokenRefreshed ==
    /\ user # NoUser
    /\ \E fresh \in BOOLEAN :
           AuthStateChange("TOKEN_REFRESHED", user, fresh,
               listening /\ isSubscribed /\ effUser = user /\ ~depsChanged
               /\ \E c \in channels : c.st = "joined")

\* pre: the collection is not empty
SignedOut ==
    /\ user # NoUser
    /\ AuthStateChange("SIGNED_OUT", NoUser, FALSE, videos # <<>>)

\* ------------------------------------------------- the store's effect

\* React runs the effect again after a render in which fetchVideos, user or
\* authLoading changed: the cleanup of the previous instance, then the body
EffectRun ==
    /\ depsChanged
    /\ depsChanged' = FALSE
    /\ LET down == IF effUser # NoUser /\ unsubscribeRealtime # NotSet
                   THEN CallTeardown(unsubscribeRealtime, isSubscribed, channels)
                   ELSE <<isSubscribed, channels>>
       IN IF authLoading
          THEN /\ effUser' = NoUser
               /\ unsubscribeRealtime' = NotSet
               /\ isSubscribed' = FALSE
               /\ listening' = FALSE
               /\ channels' = down[2]
               /\ UNCHANGED <<videos, pageVars>>
          ELSE IF user = NoUser
               THEN /\ videos' = <<>>
                    /\ loading' = FALSE
                    /\ offsetRef' = 0
                    /\ hasMore' = TRUE
                    /\ effUser' = NoUser
                    /\ unsubscribeRealtime' = NotSet
                    /\ isSubscribed' = FALSE
                    /\ listening' = FALSE
                    /\ channels' = down[2]
                    /\ UNCHANGED <<loadingMore, error>>
               ELSE LET up == subscribeAndFetch(user, FALSE, down[2])
                    IN /\ effUser' = user
                       /\ unsubscribeRealtime' = up[1]
                       /\ isSubscribed' = up[2]
                       /\ channels' = up[3]
                       /\ listening' = TRUE
                       /\ UNCHANGED <<videos, pageVars>>
    /\ last' = Did("EffectRun", Undef, FALSE, Undef)
    /\ UNCHANGED <<impl, balVars, procVars, createVars, clientVars, backend, authLoading, user, tasks, probe>>

\* --------------------------------------------------------- fetchVideos

Direction(reset) == IF reset THEN "reset" ELSE "append"

\* fetchVideos(reset) up to its first await, called with closure user u
FetchStart(reset, u) ==
    IF u = NoUser
    THEN /\ loading' = FALSE
         /\ UNCHANGED <<loadingMore, error, hasMore, offsetRef, tasks>>
    ELSE /\ Room
         /\ IF reset
            THEN /\ loading' = TRUE
                 /\ offsetRef' = 0
                 /\ hasMore' = TRUE
                 /\ UNCHANGED loadingMore
            ELSE /\ loadingMore' = TRUE
                 /\ UNCHANGED <<loading, offsetRef, hasMore>>
         /\ error' = IF impl = "VideoProvider" THEN Null ELSE error
         /\ tasks' = Started([Task("fetchQuery", u, Undef, NoRec) EXCEPT
                                 !.reset = reset,
                                 !.from = IF reset THEN 0 ELSE offsetRef])

IdNum(id) == CHOOSE k \in 1..NumIds : ToString(k) = id

AllRows == UNION {Rows(i) : i \in Ids}

\* the pages a query can answer when the backend is changed by others at
\* will: rows of distinct ids in backend order (created_at descending, id
\* descending; a younger row has the larger id)
Pages ==
    {p \in UNION {[1..n -> AllRows] : n \in 0..NumIds} :
        \A i, j \in 1..Len(p) : i < j => IdNum(p[i].id) > IdNum(p[j].id)}

IsFetch(t) == t.kind \in {"fetchQuery", "fetchProcess"}

\* mutant: the error branch without the finally block
FetchQueryError_NoFinally(t) ==
    /\ t \in InFlight /\ t.kind = "fetchQuery"
    /\ error' = "msg"
    /\ IF t.reset
       THEN loading' = FALSE /\ UNCHANGED loadingMore
       ELSE loadingMore' = FALSE /\ UNCHANGED loading
    /\ tasks' = Finished(t)
    /\ last' = Did("FetchQueryError", Undef, FALSE, Direction(t.reset))
    /\ UNCHANGED <<impl, balVars, procVars, createVars, clientVars, backend, authVars, videos, hasMore, offsetRef, subVars, probe>>

\* the query ends with { error }: lines 110-119, left by a return inside
\* the try block, so that the finally block clears both flags
FetchQueryError(t) ==
    /\ t \in InFlight /\ t.kind = "fetchQuery"
    /\ error' = "msg"
    /\ loading' = FALSE
    /\ loadingMore' = FALSE
    /\ tasks' = Finished(t)
    /\ last' = Did("FetchQueryError", Undef, FALSE, Direction(t.reset))
    /\ UNCHANGED <<impl, balVars, procVars, createVars, clientVars, backend, authVars, videos, hasMore, offsetRef, subVars, probe>>

\* the query throws: catch and finally
FetchQueryThrow(t) ==
    /\ t \in InFlight /\ t.kind = "fetchQuery"
    /\ error' = "msg"
    /\ loading' = FALSE
    /\ loadingMore' = FALSE
    /\ tasks' = Finished(t)
    /\ last' = Did("FetchQueryThrow", Undef, FALSE, Direction(t.reset))
    /\ UNCHANGED <<impl, balVars, procVars, createVars, clientVars, backend, authVars, videos, hasMore, offsetRef, subVars, probe>>

\* mutant: a short page leaves hasMore alone
HasMoreAfter_Keep(hm, n) == hm

\* setHasMore(false) when the page is short
HasMoreAfter(hm, n) == IF n < VIDEOS_PER_PAGE THEN FALSE ELSE hm

\* the query answers with rows: hasMore, then processVideosWithSignedUrls
\* starts; pre: fewer rows than a page
FetchQueryData(t, rows) ==
    /\ t \in InFlight /\ t.kind = "fetchQuery"
    /\ hasMore' = HasMoreAfter(hasMore, Len(rows))
    /\ tasks' = Continued(t, [t EXCEPT !.kind = "fetchProcess", !.rows = rows])
    /\ last' = Did("FetchQueryData", Undef, Len(rows) < VIDEOS_PER_PAGE, Direction(t.reset))
    /\ UNCHANGED <<impl, balVars, procVars, createVars, clientVars, backend, authVars, videos, loading, loadingMore, error,
                   offsetRef, subVars, probe>>

\* mutant: an append that adds the whole page
AppendUpdater_Whole(prev, processedVideos) == prev \o processedVideos

\* the updater of an append fetch
AppendUpdater(prev, processedVideos) ==
    prev \o FilterOut(processedVideos, IdsOf(prev))

\* the ids of the rows for which processVideosWithSignedUrls calls the resolver
Resolvable(rows) ==
    {rows[i].id : i \in {j \in 1..Len(rows) :
        rows[j].status = "completed" /\ Truthy(rows[j].bucket_path)}}

\* processVideosWithSignedUrls has answered (oks: the ids whose resolution
\* succeeded): the collection is written, then finally; pre: a fetched id
\* was already in the collection; sign: every resolution succeeded
FetchComplete(t, oks) ==
    /\ t \in InFlight /\ t.kind = "fetchProcess"
    /\ oks \subseteq Resolvable(t.rows)
    /\ LET processedVideos == [i \in 1..Len(t.rows) |-> ProcessVideo(t.rows[i], t.rows[i].id \in oks)]
       IN IF t.reset
          THEN /\ videos' = processedVideos
               /\ offsetRef' = VIDEOS_PER_PAGE
          ELSE /\ videos' = AppendUpdater(videos, processedVideos)
               /\ offsetRef' = Len(AppendUpdater(videos, processedVideos))
    /\ error' = Null
    /\ loading' = FALSE
    /\ loadingMore' = FALSE
    /\ tasks' = Finished(t)
    /\ last' = DidSign("FetchComplete", Undef, IdsOf(t.rows) \cap IdsOf(videos) # {},
                       Direction(t.reset), oks = Resolvable(t.rows))
    /\ UNCHANGED <<impl, balVars, procVars, createVars, clientVars, backend, authVars, hasMore, subVars, probe>>

\* loadMore(); pre: a fetch was started
LoadMore ==
    /\ IF ~hasMore \/ loadingMore \/ loading
       THEN UNCHANGED <<pageVars, tasks>>
       ELSE FetchStart(FALSE, user)
    /\ last' = Did("LoadMore", Undef, ~(~hasMore \/ loadingMore \/ loading), Undef)
    /\ UNCHANGED <<impl, balVars, procVars, createVars, clientVars, backend, authVars, videos, subVars, probe>>

\* refetch() of VideoProvider, fetchVideos() of useVideos: a manual reset
\* fetch; pre: a page fetch was in flight
Refetch ==
    /\ FetchStart(TRUE, user)
    /\ last' = Did("Refetch", Undef, \E t \in InFlight : IsFetch(t), Undef)
    /\ UNCHANGED <<impl, balVars, procVars, createVars, clientVars, backend, authVars, videos, subVars, probe>>

\* ------------------------------------------------ channel status callback

\* mutant: a status callback that fetches at every SUBSCRIBED
ChannelSubscribed_Always(c) ==
    /\ c \in channels
    /\ channels' = (channels \ {c}) \cup {[c EXCEPT !.st = "joined"]}
    /\ FetchStart(TRUE, effUser)
    /\ isSubscribed' = TRUE
    /\ last' = Did("ChannelSubscribed", Undef, ~isSubscribed, Undef)
    /\ UNCHANGED <<impl, balVars, procVars, createVars, clientVars, backend, authVars, videos, effUser, unsubscribeRealtime,
                   listening, probe>>

\* status SUBSCRIBED; pre: the flag was false, a reset fetch is started
ChannelSubscribed(c) ==
    /\ c \in channels
    /\ channels' = (channels \ {c}) \cup {[c EXCEPT !.st = "joined"]}
    /\ IF ~isSubscribed
       THEN /\ FetchStart(TRUE, effUser)
            /\ isSubscribed' = TRUE
       ELSE UNCHANGED <<pageVars, tasks, isSubscribed>>
    /\ last' = Did("ChannelSubscribed", Undef, ~isSubscribed, Undef)
    /\ UNCHANGED <<impl, balVars, procVars, createVars, clientVars, backend, authVars, videos, effUser, unsubscribeRealtime,
                   listening, probe>>

\* status CHANNEL_ERROR or TIMED_OUT
ChannelError(c) ==
    /\ c \in channels
    /\ channels' = (channels \ {c}) \cup {[c EXCEPT !.st = "errored"]}
    /\ isSubscribed' = FALSE
    /\ last' = Did("ChannelError", Undef, isSubscribed, Undef)
    /\ UNCHANGED <<impl, balVars, procVars, createVars, clientVars, backend, authVars, videos, pageVars, effUser,
                   unsubscribeRealtime, listening, tasks, probe>>

\* --------------------------------------------------- broadcast handlers

\* a broadcast reaches the handlers of a channel that has joined
Joined(c) == c \in channels /\ c.st = "joined"

EntryOf(prev, id) == IF Exists(prev, id) THEN Find(prev, id) ELSE NoRec

\* useVideos INSERT: !record.prompt || !record.status
needsBackfill(record) == ~Truthy(record.prompt) \/ ~Truthy(record.status)

\* useVideos INSERT: the updater, then a point fetch if prompt or status is
\* missing; pre: the id was already in the collection; sign: the payload
\* lacks prompt or status
useVideos_OnInsert(record) ==
    /\ videos' = InsertUpdater("useVideos", videos, record)
    /\ IF needsBackfill(record)
       THEN /\ Room
            /\ tasks' = Started(Task("insertRefetch", effUser, record.id, record))
       ELSE UNCHANGED tasks
    /\ UNCHANGED offsetRef

\* VideoProvider INSERT: the updater only
VideoProvider_OnInsert(record) ==
    /\ videos' = InsertUpdater("VideoProvider", videos, record)
    /\ UNCHANGED <<tasks, offsetRef>>

OnInsert(c, record) ==
    /\ Joined(c)
    /\ IF impl = "useVideos" THEN useVideos_OnInsert(record) ELSE VideoProvider_OnInsert(record)
    /\ last' = DidSign("OnInsert", record.id, Exists(videos, record.id), record.status,
                       needsBackfill(record))
    /\ UNCHANGED <<impl, balVars, procVars, createVars, clientVars, backend, authVars, loading, loadingMore, error, hasMore,
                   subVars, probe>>

\* useVideos INSERT: the point fetch answers with the row
InsertRefetchData(t, data) ==
    /\ t \in InFlight /\ t.kind = "insertRefetch"
    /\ data.id = t.id
    /\ videos' = InsertRefetchUpdater(videos, data)
    /\ tasks' = Finished(t)
    /\ last' = Did("InsertRefetchData", t.id, Exists(videos, t.id), data.status)
    /\ UNCHANGED <<impl, balVars, procVars, createVars, clientVars, backend, authVars, pageVars, subVars, probe>>

\* useVideos INSERT: the point fetch answers with an error, or throws
InsertRefetchError(t) ==
    /\ t \in InFlight /\ t.kind = "insertRefetch"
    /\ tasks' = Finished(t)
    /\ last' = Did("InsertRefetchError", t.id, Exists(videos, t.id), Undef)
    /\ UNCHANGED <<impl, balVars, procVars, createVars, clientVars, backend, authVars, videos, pageVars, subVars, probe>>

\* useVideos UPDATE: the merge, then the point fetch if shouldRefetch.  The
\* branch shouldGenerateSignedUrlDirectly of the source needs !shouldRefetch
\* and status completed together and is never taken.
useVideos_OnUpdate(record) ==
    /\ videos' = MapById(videos, record.id,
                         [v \in Entries(videos) |-> useVideos_UpdateMerge(v, record)])
    /\ IF shouldRefetch(record)
       THEN /\ Room
            /\ tasks' = Started(Task("updateRefetch", effUser, record.id, record))
       ELSE UNCHANGED tasks

\* { ...v, ...record, signed_url_loading: true }
MarkLoading(v, record) == [Spread(v, record) EXCEPT !.signed_url_loading = T]

\* VideoProvider UPDATE: mark the entry and resolve a URL, or merge
VideoProvider_OnUpdate(record) ==
    IF shouldGenerateSignedUrl(record)
    THEN /\ Room
         /\ videos' = MapById(videos, record.id,
                              [v \in Entries(videos) |-> MarkLoading(v, record)])
         /\ tasks' = Started(Task("updateSign", effUser, record.id, record))
    ELSE /\ videos' = MapById(videos, record.id,
                              [v \in Entries(videos) |-> VideoProvider_UpdateMerge(v, record)])
         /\ UNCHANGED tasks

\* the event says completed, with a bucket_path and without a signed_url
NeedsUrl(record) ==
    /\ record.status = "completed"
    /\ Truthy(record.bucket_path)
    /\ ~Truthy(record.signed_url)

\* pre: the event's status is present and not completed and the entry exists;
\* arg: the signed_url the entry had; sign: the event needs a URL for an
\* entry that exists
OnUpdate(c, record) ==
    /\ Joined(c)
    /\ IF impl = "useVideos" THEN useVideos_OnUpdate(record) ELSE VideoProvider_OnUpdate(record)
    /\ last' = DidSign("OnUpdate", record.id,
                       Truthy(record.status) /\ record.status # "completed"
                       /\ Exists(videos, record.id),
                       EntryOf(videos, record.id).signed_url,
                       NeedsUrl(record) /\ Exists(videos, record.id))
    /\ UNCHANGED <<impl, balVars, procVars, createVars, clientVars, backend, authVars, pageVars, subVars, probe>>

\* { ...data, signed_url_loading: false }
RefetchedRecord(data) == [data EXCEPT !.signed_url_loading = F]

\* mutant: the point fetch's row is added when its id is not there
UpdateRefetchUpdater_Upsert(prev, data) ==
    IF data.status = "completed" /\ Truthy(data.bucket_path)
    THEN MapById(prev, data.id, [v \in Entries(prev) |-> [v EXCEPT !.signed_url_loading = T]])
    ELSE IF Exists(prev, data.id)
         THEN MapById(prev, data.id, [v \in Entries(prev) |-> RefetchedRecord(data)])
         ELSE <<RefetchedRecord(data)>> \o prev

\* useVideos UPDATE: the write of the point fetch's row
UpdateRefetchUpdater(prev, data) ==
    IF data.status = "completed" /\ Truthy(data.bucket_path)
    THEN MapById(prev, data.id, [v \in Entries(prev) |-> [v EXCEPT !.signed_url_loading = T]])
    ELSE MapById(prev, data.id, [v \in Entries(prev) |-> RefetchedRecord(data)])

\* useVideos UPDATE: the point fetch answers with the row; a completed row
\* goes on to resolve a URL.  pre: the event's status was present and not
\* completed and the entry exists; arg: the status of the fetched row
UpdateRefetchData(t, data) ==
    /\ t \in InFlight /\ t.kind = "updateRefetch"
    /\ data.id = t.id
    /\ videos' = UpdateRefetchUpdater(videos, data)
    /\ IF data.status = "completed" /\ Truthy(data.bucket_path)
       THEN tasks' = Continued(t, [t EXCEPT !.kind = "updateSign", !.data = data])
       ELSE tasks' = Finished(t)
    /\ last' = DidSign("UpdateRefetchData", t.id,
                       Truthy(t.rec.status) /\ t.rec.status # "completed"
                       /\ Exists(videos, t.id),
                       data.status,
                       NeedsUrl(t.rec) /\ Exists(videos, t.id))
    /\ UNCHANGED <<impl, balVars, procVars, createVars, clientVars, backend, authVars, pageVars, subVars, probe>>

\* useVideos UPDATE: the point fetch answers with an error, or throws
UpdateRefetchError(t) ==
    /\ t \in InFlight /\ t.kind = "updateRefetch"
    /\ tasks' = Finished(t)
    /\ last' = DidSign("UpdateRefetchError", t.id, FALSE, Undef,
                       NeedsUrl(t.rec) /\ Exists(videos, t.id))
    /\ UNCHANGED <<impl, balVars, procVars, createVars, clientVars, backend, authVars, videos, pageVars, subVars, probe>>

\* mutant: a failed resolution leaves the entry as it is
UpdateSignWrite_FailureKeeps(im, v, record, data, ok) ==
    IF ~ok
    THEN v
    ELSE IF im = "useVideos"
         THEN [data EXCEPT !.signed_url = "url", !.signed_url_loading = F]
         ELSE [Spread(v, record) EXCEPT !.signed_url = "url", !.signed_url_loading = F]

\* the entry written when getSignedUrlAndDownload has answered (ok) or
\* thrown (not ok)
UpdateSignWrite(im, v, record, data, ok) ==
    IF im = "useVideos"
    THEN IF ok
         THEN [data EXCEPT !.signed_url = "url", !.signed_url_loading = F]
         ELSE [data EXCEPT !.signed_url_loading = F]
    ELSE IF ok
         THEN [Spread(v, record) EXCEPT !.signed_url = "url", !.signed_url_loading = F]
         ELSE [Spread(v, record) EXCEPT !.signed_url_loading = F]

\* pre: the entry was marked loading; arg: the outcome
UpdateSignDone(t, ok) ==
    /\ t \in InFlight /\ t.kind = "updateSign"
    /\ videos' = MapById(videos, t.id,
                         [v \in Entries(videos) |-> UpdateSignWrite(impl, v, t.rec, t.data, ok)])
    /\ tasks' = Finished(t)
    /\ last' = DidSign("UpdateSignDone", t.id,
                       EntryOf(videos, t.id).signed_url_loading = T,
                       IF ok THEN T ELSE F,
                       NeedsUrl(t.rec) /\ Exists(videos, t.id))
    /\ UNCHANGED <<impl, balVars, procVars, createVars, clientVars, backend, authVars, pageVars, subVars, probe>>

\* mutant: a delete that empties the collection
DeleteUpdater_All(prev, ids) == <<>>

\* mutant: a delete that drops the first entry, whatever its id
DeleteUpdater_Head(prev, ids) == IF prev = <<>> THEN prev ELSE Tail(prev)

\* prev.filter(...) of the DELETE handler and of the local deletes
DeleteUpdater(prev, ids) == FilterOut(prev, ids)

\* DELETE broadcast; VideoProvider also sets offsetRef; pre: the entry exists
OnDelete(c, id) ==
    /\ Joined(c)
    /\ videos' = DeleteUpdater(videos, {id})
    /\ offsetRef' = IF impl = "VideoProvider" THEN Len(DeleteUpdater(videos, {id})) ELSE offsetRef
    /\ last' = Did("OnDelete", id, Exists(videos, id), Undef)
    /\ UNCHANGED <<impl, balVars, procVars, createVars, clientVars, backend, authVars, loading, loadingMore, error, hasMore,
                   subVars, tasks, probe>>

\* ------------------------------------------------------ local deletes

\* deleteVideo(videoId) / deleteMultipleVideos(videoIds) up to the await;
\* useVideos alone has deleteMultipleVideos
DeleteStart(kind, ids) ==
    /\ Room
    /\ ids # {}
    /\ IF kind = "deleteVideo" THEN Cardinality(ids) = 1 ELSE impl = "useVideos"
    /\ tasks' = Started([Task(kind, user, Undef, NoRec) EXCEPT !.ids = ids])
    /\ last' = Did("DeleteStart", Undef, ids \subseteq IdsOf(videos), kind)
    /\ UNCHANGED <<impl, balVars, procVars, createVars, clientVars, backend, authVars, videos, pageVars, subVars, probe>>

IsDelete(t) == t.kind \in {"deleteVideo", "deleteMultipleVideos"}

\* the backend delete has returned without error: the rows are gone, the
\* entries are filtered out; VideoProvider decrements offsetRef.
\* pre: an entry is removed and another one stays
DeleteOk(t) ==
    /\ t \in InFlight /\ IsDelete(t)
    /\ backend' = FilterOut(backend, t.ids)
    /\ videos' = DeleteUpdater(videos, t.ids)
    /\ offsetRef' = IF impl = "VideoProvider"
                    THEN (IF offsetRef - 1 > 0 THEN offsetRef - 1 ELSE 0)
                    ELSE offsetRef
    /\ tasks' = Finished(t)
    /\ last' = Did("DeleteOk", Undef,
                   t.ids \cap IdsOf(videos) # {} /\ IdsOf(videos) \ t.ids # {},
                   t.kind)
    /\ UNCHANGED <<impl, balVars, procVars, createVars, clientVars, authVars, loading, loadingMore, error, hasMore, subVars, probe>>

\* the backend delete has returned { error }: throw error; pre: the ids
\* are in the collection
DeleteError(t) ==
    /\ t \in InFlight /\ IsDelete(t)
    /\ tasks' = Finished(t)
    /\ last' = Did("DeleteError", Undef, t.ids \subseteq IdsOf(videos) /\ videos # <<>>, t.kind)
    /\ UNCHANGED <<impl, balVars, procVars, createVars, clientVars, backend, authVars, videos, pageVars, subVars, probe>>

\* ---------------------------------- refreshVideoSignedUrl (VideoProvider)

\* refreshVideoSignedUrl(videoId) up to the await; it throws at once when
\* the entry is missing, not completed or without bucket_path
RefreshStart(id) ==
    /\ impl = "VideoProvider"
    /\ IF /\ Exists(videos, id)
          /\ Find(videos, id).status = "completed"
          /\ Truthy(Find(videos, id).bucket_path)
       THEN /\ Room
            /\ tasks' = Started(Task("refresh", user, id, NoRec))
       ELSE UNCHANGED tasks
    /\ last' = Did("RefreshStart", id, Exists(videos, id), Undef)
    /\ UNCHANGED <<impl, balVars, procVars, createVars, clientVars, backend, authVars, videos, pageVars, subVars, probe>>

\* mutant: the refreshed URL is not stored
RefreshWrite_KeepsUrl(v) == v

\* { ...v, signed_url: signedUrl }
RefreshWrite(v) == [v EXCEPT !.signed_url = "url2"]

\* the resolver has answered; pre: the entry is no longer completed
RefreshOk(t) ==
    /\ t \in InFlight /\ t.kind = "refresh"
    /\ videos' = MapById(videos, t.id, [v \in Entries(videos) |-> RefreshWrite(v)])
    /\ tasks' = Finished(t)
    /\ last' = Did("RefreshOk", t.id,
                   Exists(videos, t.id) /\ EntryOf(videos, t.id).status # "completed",
                   Undef)
    /\ UNCHANGED <<impl, balVars, procVars, createVars, clientVars, backend, authVars, pageVars, subVars, probe>>

\* the resolver has thrown: the error is thrown on
RefreshError(t) ==
    /\ t \in InFlight /\ t.kind = "refresh"
    /\ tasks' = Finished(t)
    /\ last' = Did("RefreshError", t.id, FALSE, Undef)
    /\ UNCHANGED <<impl, balVars, procVars, createVars, clientVars, backend, authVars, videos, pageVars, subVars, probe>>

\* a second account
UserB == "B"

\* --------------------------------------------------------- useBalance

\* the queries of fetchBalance that may be in flight together
MaxQueries == 2

\* what useBalance leaves alone: the video store is not mounted with it
storeVars == <<impl, procVars, createVars, clientVars, backend, depsChanged, videos, pageVars, subVars, tasks, probe>>

balanceFetchVars == <<balance, balanceLoading, fetchingRef, balanceTasks, balanceQueryFor>>
balanceSubVars == <<balanceUser, balanceUnsubscribe, balanceIsSubscribed,
                    balanceListening, balanceChannels>>

\* the balances a profile row or a broadcast carries
Balances == {"0", "5"}

\* mutant: fetchBalance without the test of fetchingRef
fetchBalance_NoGuard(u) ==
    IF u = NoUser
    THEN /\ balance' = Null
         /\ balanceLoading' = FALSE
         /\ fetchingRef' = FALSE
         /\ UNCHANGED <<balanceTasks, balanceQueryFor>>
    ELSE /\ balanceTasks < MaxQueries
         /\ fetchingRef' = TRUE
         /\ balanceLoading' = TRUE
         /\ balanceTasks' = balanceTasks + 1
         /\ balanceQueryFor' = u
         /\ UNCHANGED balance

\* fetchBalance() up to its await, called with closure user u
fetchBalance(u) ==
    IF u = NoUser
    THEN /\ balance' = Null
         /\ balanceLoading' = FALSE
         /\ fetchingRef' = FALSE
         /\ UNCHANGED <<balanceTasks, balanceQueryFor>>
    ELSE IF fetchingRef
         THEN UNCHANGED balanceFetchVars
         ELSE /\ balanceTasks < MaxQueries
              /\ fetchingRef' = TRUE
              /\ balanceLoading' = TRUE
              /\ balanceTasks' = balanceTasks + 1
              /\ balanceQueryFor' = u
              /\ UNCHANGED balance

\* the query answers with the profile row (v: its balance, Null when
\* there is no row): setBalance(data?.balance || 0), then finally
BalanceQueryData(v) ==
    /\ balanceTasks > 0
    /\ balance' = Or(v, "0")
    /\ balanceLoading' = FALSE
    /\ fetchingRef' = FALSE
    /\ balanceTasks' = balanceTasks - 1
    /\ UNCHANGED balanceQueryFor
    /\ last' = Did("BalanceQueryData", Undef, fetchingRef, v)
    /\ UNCHANGED <<storeVars, authLoading, user, balanceSubVars, balanceDeps>>

\* the query answers with { error }, or throws: setBalance(0), then finally
BalanceQueryError ==
    /\ balanceTasks > 0
    /\ balance' = "0"
    /\ balanceLoading' = FALSE
    /\ fetchingRef' = FALSE
    /\ balanceTasks' = balanceTasks - 1
    /\ UNCHANGED balanceQueryFor
    /\ last' = Did("BalanceQueryError", Undef, fetchingRef, Undef)
    /\ UNCHANGED <<storeVars, authLoading, user, balanceSubVars, balanceDeps>>

\* refetch() called by a component, which has tested its user before
\* (billing.tsx); u is the user of the render the callback is from.
\* pre: a query was in flight
BalanceRefetch(u) ==
    /\ u # NoUser
    /\ fetchBalance(u)
    /\ last' = Did("BalanceRefetch", Undef, balanceTasks > 0, Undef)
    /\ UNCHANGED <<storeVars, authLoading, user, balanceSubVars, balanceDeps>>

\* the hook's onAuthStateChange callback; s is session?.user
BalanceAuthListener(event, s) ==
    IF s # NoUser /\ balanceUnsubscribe # NotSet /\ event = "TOKEN_REFRESHED"
    THEN UNCHANGED <<balanceFetchVars, balanceSubVars>>
    ELSE LET down == IF balanceUnsubscribe # NotSet
                     THEN CallTeardown(balanceUnsubscribe, balanceIsSubscribed,
                                       balanceChannels)
                     ELSE <<balanceIsSubscribed, balanceChannels>>
         IN IF s # NoUser /\ event # "TOKEN_REFRESHED"
            THEN LET up == subscribeAndFetch(s, down[1], down[2])
                 IN /\ fetchBalance(balanceUser)
                    /\ balanceUnsubscribe' = up[1]
                    /\ balanceIsSubscribed' = up[2]
                    /\ balanceChannels' = up[3]
                    /\ UNCHANGED <<balanceUser, balanceListening>>
            ELSE IF event = "SIGNED_OUT"
                 THEN /\ balanceUnsubscribe' = NotSet
                      /\ balanceIsSubscribed' = down[1]
                      /\ balanceChannels' = {}
                      /\ balance' = Null
                      /\ UNCHANGED <<balanceLoading, fetchingRef, balanceTasks, balanceQueryFor,
                                     balanceUser, balanceListening>>
                 ELSE /\ balanceUnsubscribe' = NotSet
                      /\ balanceIsSubscribed' = down[1]
                      /\ balanceChannels' = down[2]
                      /\ UNCHANGED <<balanceFetchVars, balanceUser, balanceListening>>

\* initializeAuth() as the hook sees it
BalanceAuthInitialize ==
    /\ authLoading
    /\ \E u \in {NoUser, UserA} : user' = u
    /\ authLoading' = FALSE
    /\ balanceDeps' = TRUE
    /\ last' = Did("AuthInitialize", Undef, FALSE, Undef)
    /\ UNCHANGED <<storeVars, balanceFetchVars, balanceSubVars>>

\* supabase.auth publishes an event: AuthProvider's callback stores the
\* session's user, then the hook's callback runs if it is registered.
\* pre: the cached balance is not null
BalanceAuthStateChange(event, s, fresh) ==
    /\ user' = s
    /\ authLoading' = FALSE
    /\ balanceDeps' = (\/ balanceDeps
                       \/ authLoading
                       \/ (s = NoUser) # (user = NoUser)
                       \/ (s # NoUser /\ fresh))
    /\ IF balanceListening
       THEN BalanceAuthListener(event, s)
       ELSE UNCHANGED <<balanceFetchVars, balanceSubVars>>
    /\ last' = Did(event, Undef, balance # Null, Undef)
    /\ UNCHANGED storeVars

BalanceSignedIn(u) ==
    \E fresh \in BOOLEAN : BalanceAuthStateChange("SIGNED_IN", u, fresh \/ u # user)

BalanceTokenRefreshed ==
    /\ user # NoUser
    /\ \E fresh \in BOOLEAN : BalanceAuthStateChange("TOKEN_REFRESHED", user, fresh)

BalanceSignedOut ==
    /\ user # NoUser
    /\ BalanceAuthStateChange("SIGNED_OUT", NoUser, FALSE)

\* React runs the hook's effect again after a render in which fetchBalance,
\* user or authLoading changed: the cleanup of the previous instance, then
\* the body.  pre: the cached balance is not null
BalanceEffectRun ==
    /\ balanceDeps
    /\ balanceDeps' = FALSE
    /\ LET down == IF balanceUser # NoUser /\ balanceUnsubscribe # NotSet
                   THEN CallTeardown(balanceUnsubscribe, balanceIsSubscribed,
                                     balanceChannels)
                   ELSE <<balanceIsSubscribed, balanceChannels>>
       IN IF authLoading
          THEN /\ balanceUser' = NoUser
               /\ balanceUnsubscribe' = NotSet
               /\ balanceIsSubscribed' = FALSE
               /\ balanceListening' = FALSE
               /\ balanceChannels' = down[2]
               /\ UNCHANGED balanceFetchVars
          ELSE IF user = NoUser
               THEN /\ balance' = Null
                    /\ balanceLoading' = FALSE
                    /\ balanceUser' = NoUser
                    /\ balanceUnsubscribe' = NotSet
                    /\ balanceIsSubscribed' = FALSE
                    /\ balanceListening' = FALSE
                    /\ balanceChannels' = down[2]
                    /\ UNCHANGED <<fetchingRef, balanceTasks, balanceQueryFor>>
               ELSE LET up == subscribeAndFetch(user, FALSE, down[2])
                    IN /\ fetchBalance(user)
                       /\ balanceUser' = user
                       /\ balanceUnsubscribe' = up[1]
                       /\ balanceIsSubscribed' = up[2]
                       /\ balanceChannels' = up[3]
                       /\ balanceListening' = TRUE
    /\ last' = Did("BalanceEffectRun", Undef, balance # Null, Undef)
    /\ UNCHANGED <<storeVars, authLoading, user>>

\* the channel's status callback: SUBSCRIBED
BalanceSubscribed(c) ==
    /\ c \in balanceChannels
    /\ balanceChannels' = (balanceChannels \ {c}) \cup {[c EXCEPT !.st = "joined"]}
    /\ balanceIsSubscribed' = TRUE
    /\ last' = Did("BalanceSubscribed", Undef, FALSE, Undef)
    /\ UNCHANGED <<storeVars, authLoading, user, balanceFetchVars, balanceUser,
                   balanceUnsubscribe, balanceListening, balanceDeps>>

\* the channel's status callback: CHANNEL_ERROR or TIMED_OUT
BalanceChannelError(c) ==
    /\ c \in balanceChannels
    /\ balanceChannels' = (balanceChannels \ {c}) \cup {[c EXCEPT !.st = "errored"]}
    /\ balanceIsSubscribed' = FALSE
    /\ last' = Did("BalanceChannelError", Undef, FALSE, Undef)
    /\ UNCHANGED <<storeVars, authLoading, user, balanceFetchVars, balanceUser,
                   balanceUnsubscribe, balanceListening, balanceDeps>>

\* mutant: a handler that never stores the record's balance
BalanceAfterUpdate_Keeps(prev, b) == prev

\* if (record && record.balance !== undefined) setBalance(record.balance)
BalanceAfterUpdate(prev, b) == IF b # Undef THEN b ELSE prev

\* UPDATE broadcast on the balance channel; b is record.balance (Undef: the
\* record has no such key).  arg: b
BalanceOnUpdate(c, b) ==
    /\ c \in balanceChannels /\ c.st = "joined"
    /\ balance' = BalanceAfterUpdate(balance, b)
    /\ last' = Did("BalanceOnUpdate", Undef, balanceTasks > 0, b)
    /\ UNCHANGED <<storeVars, authLoading, user, balanceLoading, fetchingRef,
                   balanceTasks, balanceQueryFor, balanceSubVars, balanceDeps>>

\* useBalance under sign-in, sign-out, token refresh, channel status,
\* balance broadcasts and refetch calls
BalanceNext ==
    \/ BalanceAuthInitialize
    \/ \E u \in {UserA, UserB} : BalanceSignedIn(u)
    \/ BalanceTokenRefreshed
    \/ BalanceSignedOut
    \/ BalanceEffectRun
    \/ \E u \in {user, balanceUser} : BalanceRefetch(u)
    \/ \E v \in Balances \cup {Null} : BalanceQueryData(v)
    \/ BalanceQueryError
    \/ \E c \in balanceChannels : BalanceSubscribed(c)
    \/ \E c \in balanceChannels : BalanceChannelError(c)
    \/ \E c \in balanceChannels : \E b \in Balances \cup {Null, Undef} : BalanceOnUpdate(c, b)

BalanceSpec == Init /\ [][BalanceNext]_vars

\* ------------------------------------------------------- specifications

\* every operation, the backend answering queries with any page
Next ==
    \/ AuthInitialize
    \/ SignedIn
    \/ TokenRefreshed
    \/ SignedOut
    \/ EffectRun
    \/ Refetch
    \/ LoadMore
    \/ \E c \in channels : ChannelSubscribed(c)
    \/ \E c \in channels : ChannelError(c)
    \/ \E t \in InFlight : FetchQueryError(t)
    \/ \E t \in InFlight : FetchQueryThrow(t)
    \/ \E t \in InFlight, rows \in Pages : FetchQueryData(t, rows)
    \/ \E t \in InFlight : \E oks \in SUBSET Resolvable(t.rows) : FetchComplete(t, oks)
    \/ \E c \in channels, id \in Ids : \E record \in Payloads(id) : OnInsert(c, record)
    \/ \E t \in InFlight : \E data \in Rows(t.id) : InsertRefetchData(t, data)
    \/ \E t \in InFlight : InsertRefetchError(t)
    \/ \E c \in channels, id \in Ids : \E record \in Payloads(id) : OnUpdate(c, record)
    \/ \E t \in InFlight : \E data \in Rows(t.id) : UpdateRefetchData(t, data)
    \/ \E t \in InFlight : UpdateRefetchError(t)
    \/ \E t \in InFlight, ok \in BOOLEAN : UpdateSignDone(t, ok)
    \/ \E c \in channels, id \in Ids : OnDelete(c, id)
    \/ \E id \in Ids : DeleteStart("deleteVideo", {id})
    \/ \E ids \in SUBSET Ids : DeleteStart("deleteMultipleVideos", ids)
    \/ \E t \in InFlight : DeleteOk(t)
    \/ \E t \in InFlight : DeleteError(t)
    \/ \E id \in Ids : RefreshStart(id)
    \/ \E t \in InFlight : RefreshOk(t)
    \/ \E t \in InFlight : RefreshError(t)

Spec == Init /\ [][Next]_vars

\* the store of a user who stays signed in: page fetches, broadcasts, local
\* deletes and URL refreshes interleave
StoreNext ==
    \/ AuthInitialize
    \/ EffectRun
    \/ LoadMore
    \/ \E c \in channels : ChannelSubscribed(c)
    \/ \E t \in InFlight : FetchQueryError(t)
    \/ \E t \in InFlight, rows \in Pages : FetchQueryData(t, rows)
    \/ \E t \in InFlight : \E oks \in SUBSET Resolvable(t.rows) : FetchComplete(t, oks)
    \/ \E c \in channels, id \in Ids : \E record \in Payloads(id) : OnInsert(c, record)
    \/ \E t \in InFlight : \E data \in Rows(t.id) : InsertRefetchData(t, data)
    \/ \E t \in InFlight : InsertRefetchError(t)
    \/ \E c \in channels, id \in Ids : \E record \in Payloads(id) : OnUpdate(c, record)
    \/ \E t \in InFlight : \E data \in Rows(t.id) : UpdateRefetchData(t, data)
    \/ \E t \in InFlight : UpdateRefetchError(t)
    \/ \E t \in InFlight, ok \in BOOLEAN : UpdateSignDone(t, ok)
    \/ \E c \in channels, id \in Ids : OnDelete(c, id)
    \/ \E id \in Ids : DeleteStart("deleteVideo", {id})
    \/ \E t \in InFlight : DeleteOk(t)
    \/ \E t \in InFlight : DeleteError(t)
    \/ \E id \in Ids : RefreshStart(id)
    \/ \E t \in InFlight : RefreshOk(t)
    \/ \E t \in InFlight : RefreshError(t)

StoreSpec == Init /\ [][StoreNext]_vars

\* the handlers that mark an entry loading and resolve its URL, with the
\* broadcasts and the reset fetch that interleave with them
SignNext ==
    \/ AuthInitialize
    \/ EffectRun
    \/ \E c \in channels : ChannelSubscribed(c)
    \/ \E t \in InFlight, rows \in Pages : FetchQueryData(t, rows)
    \/ \E t \in InFlight : \E oks \in SUBSET Resolvable(t.rows) : FetchComplete(t, oks)
    \/ \E c \in channels, id \in Ids : \E record \in Payloads(id) : OnInsert(c, record)
    \/ \E t \in InFlight : \E data \in Rows(t.id) : InsertRefetchData(t, data)
    \/ \E t \in InFlight : InsertRefetchError(t)
    \/ \E c \in channels, id \in Ids : \E record \in Payloads(id) : OnUpdate(c, record)
    \/ \E t \in InFlight : \E data \in Rows(t.id) : UpdateRefetchData(t, data)
    \/ \E t \in InFlight : UpdateRefetchError(t)
    \/ \E t \in InFlight, ok \in BOOLEAN : UpdateSignDone(t, ok)
    \/ \E c \in channels, id \in Ids : OnDelete(c, id)

\* every call of the resolver returns: a handler waiting in
\* getSignedUrlAndDownload goes on
FairSignSpec ==
    /\ Init /\ [][SignNext]_vars
    /\ \A id \in Ids :
          WF_vars(\E t \in InFlight, ok \in BOOLEAN : t.id = id /\ UpdateSignDone(t, ok))

\* sign-in, token refresh, sign-out, channel status and the reset fetch of
\* a subscription
SubNext ==
    \/ AuthInitialize
    \/ SignedIn
    \/ TokenRefreshed
    \/ SignedOut
    \/ EffectRun
    \/ \E c \in channels : ChannelSubscribed(c)
    \/ \E c \in channels : ChannelError(c)
    \/ \E t \in InFlight : FetchQueryError(t)
    \/ \E t \in InFlight, rows \in Pages : FetchQueryData(t, rows)
    \/ \E t \in InFlight : \E oks \in SUBSET Resolvable(t.rows) : FetchComplete(t, oks)

SubSpec == Init /\ [][SubNext]_vars

\* the steps of the program are taken when they can be: the restore of the
\* session returns, React runs a scheduled effect, an awaited query and the
\* resolution of its rows return.  Nothing obliges the realtime server to
\* report a status or supabase.auth to publish an event.
FairSubSpec ==
    /\ Init /\ [][SubNext]_vars
    /\ WF_vars(AuthInitialize)
    /\ WF_vars(EffectRun)
    /\ WF_vars(\E t \in InFlight : \/ FetchQueryError(t)
                                   \/ \E rows \in Pages : FetchQueryData(t, rows))
    /\ WF_vars(\E t \in InFlight : \E oks \in SUBSET Resolvable(t.rows) : FetchComplete(t, oks))

\* the page fetches of a signed-in user: the subscription's reset fetch,
\* manual refetches and loadMore calls, with failing queries
FetchNext ==
    \/ AuthInitialize
    \/ EffectRun
    \/ Refetch
    \/ LoadMore
    \/ \E c \in channels : ChannelSubscribed(c)
    \/ \E c \in channels : ChannelError(c)
    \/ \E t \in InFlight : FetchQueryError(t)
    \/ \E t \in InFlight : FetchQueryThrow(t)
    \/ \E t \in InFlight, rows \in Pages : FetchQueryData(t, rows)
    \/ \E t \in InFlight : \E oks \in SUBSET Resolvable(t.rows) : FetchComplete(t, oks)

FetchSpec == Init /\ [][FetchNext]_vars

\* SIGNED_IN with the session of user u; another user's object is a new
\* object; pre: the running effect instance closed over another user
SignedInAs(u) ==
    \E fresh \in BOOLEAN :
        AuthStateChange("SIGNED_IN", u, fresh \/ u # user,
            listening /\ effUser # NoUser /\ effUser # u)

\* sign-out, sign-in and account switch between two users, with the
\* channel status and the reset fetch of each subscription
SwitchNext ==
    \/ AuthInitialize
    \/ \E u \in {UserA, UserB} : SignedInAs(u)
    \/ SignedOut
    \/ EffectRun
    \/ \E c \in channels : ChannelSubscribed(c)
    \/ \E t \in InFlight, rows \in Pages : FetchQueryData(t, rows)
    \/ \E t \in InFlight : \E oks \in SUBSET Resolvable(t.rows) : FetchComplete(t, oks)

SwitchSpec == Init /\ [][SwitchNext]_vars

\* ------------------------------------------- paging over a followed table

\* the rows the followed table starts with
NumRows == 11

\* the table of the user's rows in query order, the youngest row first
Table(n) == [i \in 1..n |-> Row(ToString(n + 1 - i), "processing", Null)]

\* .range(from, from + VIDEOS_PER_PAGE - 1) over the table
PageOf(table, from) ==
    SubSeq(table, from + 1,
           IF from + VIDEOS_PER_PAGE < Len(table) THEN from + VIDEOS_PER_PAGE ELSE Len(table))

\* the ids the user deletes in these behaviours: the two youngest rows
DeleteIds == {ToString(NumRows), ToString(NumRows - 1)}

PageInit == InitStore /\ backend = Table(NumRows)

\* paging over a table that nobody changes
PageNext ==
    \/ AuthInitialize
    \/ SignedOut
    \/ EffectRun
    \/ Refetch
    \/ LoadMore
    \/ \E c \in channels : ChannelSubscribed(c)
    \/ \E t \in InFlight : FetchQueryError(t)
    \/ \E t \in InFlight : FetchQueryData(t, PageOf(backend, t.from))
    \/ \E t \in InFlight : FetchComplete(t, {})

PageSpec == PageInit /\ [][PageNext]_vars

\* the user's deletes over the first page of the table
DeleteNext ==
    \/ AuthInitialize
    \/ EffectRun
    \/ \E c \in channels : ChannelSubscribed(c)
    \/ \E t \in InFlight : FetchQueryData(t, PageOf(backend, t.from))
    \/ \E t \in InFlight : FetchComplete(t, {})
    \/ \E id \in DeleteIds : DeleteStart("deleteVideo", {id})
    \/ \E ids \in SUBSET DeleteIds : DeleteStart("deleteMultipleVideos", ids)
    \/ \E t \in InFlight : DeleteOk(t)
    \/ \E t \in InFlight : DeleteError(t)

DeleteSpec == PageInit /\ [][DeleteNext]_vars

\* paging on after the user has deleted shown entries, one call after the
\* other; the DELETE broadcast of a row comes after the row is gone;
\* nobody else changes the table
SkipNext ==
    \/ AuthInitialize
    \/ EffectRun
    \/ tasks = EmptyBag /\ LoadMore
    \/ \E c \in channels : ChannelSubscribed(c)
    \/ \E t \in InFlight : FetchQueryData(t, PageOf(backend, t.from))
    \/ \E t \in InFlight : FetchComplete(t, {})
    \/ \E id \in DeleteIds \cap IdsOf(videos) :
          tasks = EmptyBag /\ DeleteStart("deleteVideo", {id})
    \/ \E ids \in SUBSET (DeleteIds \cap IdsOf(videos)) :
          tasks = EmptyBag /\ DeleteStart("deleteMultipleVideos", ids)
    \/ \E t \in InFlight : DeleteOk(t)
    \/ \E c \in channels, id \in DeleteIds \ IdsOf(backend) : OnDelete(c, id)

SkipSpec == PageInit /\ [][SkipNext]_vars

\* ------------------------------------------- a fresh login over a table

\* the rows of the table in these behaviours
NumReels == 3

RowNum(id) == CHOOSE k \in 1..NumRows : ToString(k) = id

\* the column created_at of the row with an id: it is written once, when
\* the row is made; two rows made together share it
CreatedAt(id) == (RowNum(id) + 1) \div 2

\* .order("created_at", { ascending: false }).order("id", { ascending: false }):
\* a comes before b
Before(a, b) ==
    \/ CreatedAt(a.id) > CreatedAt(b.id)
    \/ CreatedAt(a.id) = CreatedAt(b.id) /\ RowNum(a.id) > RowNum(b.id)

\* mutant: a query without its order clauses answers in storage order
Ordered_AsStored(table) == table

\* the rows of a table as the two order clauses of the query arrange them
Ordered(table) ==
    CHOOSE s \in [1..Len(table) -> Entries(table)] :
        \A i, j \in 1..Len(table) : i < j => Before(s[i], s[j])

\* the query of fetchVideos over a stored table
QueryPage(table, from) == PageOf(Ordered(table), from)

\* the tables of NumReels rows, in any storage order and of any status
ReelTables ==
    {tb \in [1..NumReels -> UNION {Rows(ToString(k)) : k \in 1..NumReels}] :
        \A i, j \in 1..NumReels : tb[i].id = tb[j].id => i = j}

LoginInit == InitStore /\ backend \in ReelTables

\* the session is restored, the channel joins and its reset fetch runs
\* over a table that nobody changes
LoginNext ==
    \/ AuthInitialize
    \/ EffectRun
    \/ \E c \in channels : ChannelSubscribed(c)
    \/ \E t \in InFlight : FetchQueryError(t)
    \/ \E t \in InFlight : FetchQueryData(t, QueryPage(backend, t.from))
    \/ \E t \in InFlight : \E oks \in SUBSET Resolvable(t.rows) : FetchComplete(t, oks)

LoginSpec == LoginInit /\ [][LoginNext]_vars

\* the ids DELETE broadcasts speak about: the rows' and one more
ReelIds == {ToString(k) : k \in 1..(NumReels + 1)}

\* DELETE broadcasts, repeated ones and ones for an id the table never
\* had, after a fresh login
GoneNext ==
    \/ AuthInitialize
    \/ EffectRun
    \/ \E c \in channels : ChannelSubscribed(c)
    \/ \E t \in InFlight : FetchQueryData(t, QueryPage(backend, t.from))
    \/ \E t \in InFlight : FetchComplete(t, Resolvable(t.rows))
    \/ \E c \in channels, id \in ReelIds : OnDelete(c, id)

GoneSpec == LoginInit /\ [][GoneNext]_vars

\* refreshVideoSignedUrl for the rows of the table and for an id the
\* table never had, after a fresh login
RenewNext ==
    \/ AuthInitialize
    \/ EffectRun
    \/ \E c \in channels : ChannelSubscribed(c)
    \/ \E t \in InFlight : FetchQueryData(t, QueryPage(backend, t.from))
    \/ \E t \in InFlight : FetchComplete(t, Resolvable(t.rows))
    \/ \E id \in ReelIds : RefreshStart(id)
    \/ \E t \in InFlight : RefreshOk(t)
    \/ \E t \in InFlight : RefreshError(t)

RenewSpec == LoginInit /\ [][RenewNext]_vars

\* an id that no row of the table has
StrayId == ToString(NumReels + 1)

\* UPDATE broadcasts for an id the collection does not hold, with their
\* point fetch and resolution, after a fresh login
StrayNext ==
    \/ AuthInitialize
    \/ EffectRun
    \/ \E c \in channels : ChannelSubscribed(c)
    \/ \E t \in InFlight : FetchQueryData(t, QueryPage(backend, t.from))
    \/ \E t \in InFlight : FetchComplete(t, Resolvable(t.rows))
    \/ \E c \in channels : \E record \in Payloads(StrayId) : OnUpdate(c, record)
    \/ \E t \in InFlight : \E data \in Rows(t.id) : UpdateRefetchData(t, data)
    \/ \E t \in InFlight : UpdateRefetchError(t)
    \/ \E t \in InFlight, ok \in BOOLEAN : UpdateSignDone(t, ok)

StraySpec == LoginInit /\ [][StrayNext]_vars

\* a shown entry is deleted while a manual reset fetch is in flight over
\* the followed table; the DELETE broadcast of a row comes after the row
\* is gone
RaceNext ==
    \/ AuthInitialize
    \/ EffectRun
    \/ Refetch
    \/ \E c \in channels : ChannelSubscribed(c)
    \/ \E t \in InFlight : FetchQueryData(t, QueryPage(backend, t.from))
    \/ \E t \in InFlight : FetchComplete(t, Resolvable(t.rows))
    \/ \E id \in IdsOf(videos) : DeleteStart("deleteVideo", {id})
    \/ \E t \in InFlight : DeleteOk(t)
    \/ \E c \in channels, id \in ReelIds \ IdsOf(backend) : OnDelete(c, id)

RaceSpec == LoginInit /\ [][RaceNext]_vars

\* INSERT broadcasts for the oldest row, the last entry the collection holds
\* after a fresh login, among UPDATE broadcasts that mark that entry loading
MergeNext ==
    \/ AuthInitialize
    \/ EffectRun
    \/ \E c \in channels : ChannelSubscribed(c)
    \/ \E t \in InFlight : FetchQueryData(t, QueryPage(backend, t.from))
    \/ \E t \in InFlight : FetchComplete(t, Resolvable(t.rows))
    \/ \E c \in channels : \E record \in Payloads("1") : OnInsert(c, record)
    \/ \E t \in InFlight : \E data \in Rows(t.id) : InsertRefetchData(t, data)
    \/ \E c \in channels : OnUpdate(c, Row("1", "completed", Null))
    \/ \E t \in InFlight : UpdateRefetchData(t, Row(t.id, "completed", Null))
    \/ \E t \in InFlight, ok \in BOOLEAN : UpdateSignDone(t, ok)

\* the table of NumReels completed rows without a stored URL
MergeInit ==
    /\ InitStore
    /\ backend \in {tb \in ReelTables :
                       /\ tb = Ordered(tb)
                       /\ \A i \in 1..NumReels : tb[i] = Row(tb[i].id, "completed", Null)}

MergeSpec == MergeInit /\ [][MergeNext]_vars

\* ------------------------------------------------ one event, delivered twice

\* INSERT payloads with an optional field that is present and falsy
FalsyPayloads(id) ==
    UNION {{[r EXCEPT !.duration = "0"], [r EXCEPT !.duration = Null],
            [r EXCEPT !.prompt = Null], [r EXCEPT !.prompt = ""]} :
           r \in {Row(id, "processing", Null)}}

\* an INSERT handler run to its end with no other handler in between
InsertRun(im, prev, record, answer) ==
    LET first == InsertUpdater(im, prev, record)
    IN IF im = "useVideos" /\ needsBackfill(record) /\ answer.ok
       THEN InsertRefetchUpdater(first, answer.data)
       ELSE first

\* an UPDATE handler run to its end with no other handler in between
UpdateRun(im, prev, record, answer) ==
    IF im = "useVideos"
    THEN LET merged == MapById(prev, record.id,
                           [v \in Entries(prev) |-> useVideos_UpdateMerge(v, record)])
             fetched == UpdateRefetchUpdater(merged, answer.data)
         IN IF shouldRefetch(record) /\ answer.ok
            THEN IF answer.data.status = "completed" /\ Truthy(answer.data.bucket_path)
                 THEN MapById(fetched, record.id,
                          [v \in Entries(fetched) |->
                              UpdateSignWrite(im, v, record, answer.data, answer.sign)])
                 ELSE fetched
            ELSE merged
    ELSE IF shouldGenerateSignedUrl(record)
         THEN LET marked == MapById(prev, record.id,
                                [v \in Entries(prev) |-> MarkLoading(v, record)])
              IN MapById(marked, record.id,
                     [v \in Entries(marked) |->
                         UpdateSignWrite(im, v, record, answer.data, answer.sign)])
         ELSE MapById(prev, record.id,
                  [v \in Entries(prev) |-> VideoProvider_UpdateMerge(v, record)])

EventRun(kind, im, prev, record, answer) ==
    IF kind = "INSERT" THEN InsertRun(im, prev, record, answer)
    ELSE UpdateRun(im, prev, record, answer)

\* the answers the backend can give to the follow-up calls of one handler run
Answers(id) ==
    {Answer(FALSE, NoRec, FALSE)} \cup
    {Answer(TRUE, data, sign) : data \in Rows(id), sign \in BOOLEAN}

\* the first delivery of an event to a store at rest, handled to its end
Deliver(c, kind, record, answer) ==
    /\ Joined(c)
    /\ tasks = EmptyBag
    /\ probe.n = 0
    /\ videos' = EventRun(kind, impl, videos, record, answer)
    /\ probe' = [kind |-> kind, rec |-> record, answer |-> answer, n |-> 1,
                 once |-> EventRun(kind, impl, videos, record, answer)]
    /\ last' = Did("Deliver", record.id, Exists(videos, record.id), kind)
    /\ UNCHANGED <<impl, balVars, procVars, createVars, clientVars, backend, authVars, pageVars, subVars, tasks>>

\* the same event delivered again, the backend answering as before
Redeliver(c) ==
    /\ Joined(c)
    /\ tasks = EmptyBag
    /\ probe.n = 1
    /\ videos' = EventRun(probe.kind, impl, videos, probe.rec, probe.answer)
    /\ probe' = [probe EXCEPT !.n = 2]
    /\ last' = Did("Redeliver", probe.rec.id, Exists(videos, probe.rec.id), probe.kind)
    /\ UNCHANGED <<impl, balVars, procVars, createVars, clientVars, backend, authVars, pageVars, subVars, tasks>>

\* a signed-in store whose reset fetch has ended, then one event twice
IdemNext ==
    \/ AuthInitialize
    \/ EffectRun
    \/ \E c \in channels : ChannelSubscribed(c)
    \/ \E t \in InFlight, rows \in Pages : FetchQueryData(t, rows)
    \/ \E t \in InFlight : \E oks \in SUBSET Resolvable(t.rows) : FetchComplete(t, oks)
    \/ \E c \in channels, id \in Ids :
          \E record \in Payloads(id) \cup FalsyPayloads(id), answer \in Answers(id) :
             Deliver(c, "INSERT", record, answer)
    \/ \E c \in channels, id \in Ids :
          \E record \in Payloads(id), answer \in Answers(id) :
             Deliver(c, "UPDATE", record, answer)
    \/ \E c \in channels : Redeliver(c)

IdemSpec == Init /\ [][IdemNext]_vars

\* ---------------------------------------------------------------- claims

\* C1: in every reachable state of the video store, whatever the
\* interleaving of fetch completions, INSERT/UPDATE/DELETE broadcasts
\* (replays included), point-fetch backfills and local deletes, no two
\* entries of the collection have the same id.
C1_NoDuplicateIds ==
    \A i, j \in 1..Len(videos) : videos[i].id = videos[j].id => i = j

\* an INSERT was replayed for an id that was already in the collection
C1_ReplayedInsert ==
    last.op = "OnInsert" /\ last.pre /\ Exists(videos, last.id)

IsNull(x) == x \in {Null, Undef}

\* C2: in every reachable state, an entry whose signed_url is non-null has
\* status 'completed' and a non-null bucket_path.
C2_UrlOnlyWhenCompleted ==
    \A i \in 1..Len(videos) :
        ~IsNull(videos[i].signed_url) =>
            videos[i].status = "completed" /\ ~IsNull(videos[i].bucket_path)

HasLoading(id) ==
    \E i \in 1..Len(videos) : videos[i].id = id /\ videos[i].signed_url_loading = T

\* C3: whenever an entry's signed_url_loading is true, it is false again
\* later, or the entry has left the collection, if every call of the
\* resolver returns.
C3_LoadingEventuallyClears ==
    \A id \in Ids : HasLoading(id) ~> ~HasLoading(id)

\* a failed resolution has cleared the flag of an entry that was loading
C3_FailedResolutionCleared ==
    /\ last.op = "UpdateSignDone" /\ last.pre /\ last.arg = F
    /\ Exists(videos, last.id) /\ ~HasLoading(last.id)

\* C4: a TOKEN_REFRESHED event delivered while the store holds a ready
\* subscription for the current user removes no channel, creates none,
\* starts no fetch and leaves the collection alone, in the store's own
\* listener and in the effect run that AuthProvider's new user brings.
C4_TokenRefreshIsNoop ==
    [][(\/ last'.op = "TOKEN_REFRESHED" /\ last'.pre
        \/ last.op = "TOKEN_REFRESHED" /\ last.pre /\ last'.op = "EffectRun")
       => channels' = channels /\ tasks' = tasks /\ videos' = videos]_vars

\* C5: one store holds at most one channel at any time, and exactly one
\* after a subscribe attempt that came before the previous one had reached
\* SUBSCRIBED.
C5_AtMostOneChannel ==
    /\ Cardinality(channels) <= 1
    /\ (last.op = "SIGNED_IN" /\ last.pre => Cardinality(channels) = 1)

\* a second subscribe attempt came while the first channel was still joining
C5_OverlappingSubscribe ==
    last.op = "SIGNED_IN" /\ last.pre /\ Cardinality(channels) = 1

\* the page fetches of one direction that are in flight
FetchesInFlight(reset) ==
    BagCardinality([t \in {u \in InFlight : IsFetch(u) /\ u.reset = reset} |-> tasks[t]])

\* C6: at no time are two reset fetches in flight, nor two append fetches.
C6_OneFetchPerDirection ==
    \A reset \in BOOLEAN : FetchesInFlight(reset) <= 1

\* C7: an INSERT or UPDATE event applied twice, its follow-up calls
\* answered alike, leaves the collection that applying it once left.
C7_ReplayIsIdempotent ==
    probe.n = 2 => videos = probe.once

\* C8: deleteVideo and deleteMultipleVideos change the collection only when
\* the backend delete has returned without error, and then remove exactly
\* the entries with the given ids; a failed delete leaves it as it was.
C8_DeleteAfterSuccessOnly ==
    [][/\ last'.op \in {"DeleteStart", "DeleteError"} => videos' = videos
       /\ last'.op = "DeleteOk" =>
             \E t \in InFlight :
                /\ IsDelete(t) /\ tasks' = Finished(t)
                /\ videos' = FilterOut(videos, t.ids)]_vars

\* a delete of several ids has removed entries and left the others
C8_DeletedSome ==
    /\ last.op = "DeleteOk" /\ last.pre /\ last.arg = "deleteMultipleVideos"
    /\ videos # <<>>

\* C9: an append fetch that gets fewer than VIDEOS_PER_PAGE rows sets
\* hasMore to false; while hasMore is false loadMore starts no query and
\* changes nothing; only a reset fetch or a sign-out sets hasMore again.
C9_ShortPageEndsPaging ==
    [][/\ (last'.op = "FetchQueryData" /\ last'.arg = "append" /\ last'.pre) => ~hasMore'
       /\ (last'.op = "LoadMore" /\ ~hasMore) =>
             tasks' = tasks /\ videos' = videos /\ pageVars' = pageVars
       /\ (~hasMore /\ hasMore') =>
             last'.op \in {"Refetch", "ChannelSubscribed", "SIGNED_OUT", "EffectRun"}]_vars

\* loadMore was called after an append fetch had come back short
C9_LoadMoreAfterEnd ==
    /\ last.op = "LoadMore" /\ ~last.pre /\ ~hasMore
    /\ Len(videos) > VIDEOS_PER_PAGE /\ tasks = EmptyBag

Cleared(id) ==
    \A i \in 1..Len(videos) :
        videos[i].id = id =>
            videos[i].signed_url = Null /\ videos[i].signed_url_loading = F

Resolved(id) ==
    \A i \in 1..Len(videos) :
        videos[i].id = id =>
            ~IsNull(videos[i].signed_url) /\ videos[i].signed_url_loading = F

\* C11: the handler of an UPDATE event that says completed, with a
\* bucket_path and without a signed_url, for an entry of the collection,
\* does not end before it has called the resolver, and when the resolver
\* has succeeded the entry has signed_url_loading false and a signed_url.
C11_CompletedUpdateResolves ==
    /\ (last.sign /\ last.op \in {"UpdateRefetchData", "UpdateRefetchError"})
          => last.arg = "completed"
    /\ (last.sign /\ last.op = "UpdateSignDone" /\ last.arg = T)
          => Resolved(last.id)

\* C12: an INSERT event for an id that is not in the collection puts a
\* record at index 0 with defaults for the missing fields (prompt '',
\* status 'processing', null for the nullable fields) and leaves the other
\* entries in their order; a payload without prompt or status starts a
\* point fetch by id; a failed point fetch leaves the collection alone.
C12_InsertPrependsAndBackfills ==
    [][/\ (last'.op = "OnInsert" /\ ~last'.pre) =>
             /\ Len(videos') = Len(videos) + 1
             /\ Tail(videos') = videos
             /\ videos'[1].id = last'.id
             /\ videos'[1].status = (IF last'.arg \in Falsy THEN "processing" ELSE last'.arg)
             /\ videos'[1].prompt # Undef /\ videos'[1].prompt # Null
             /\ videos'[1].bucket_path # Undef
             /\ videos'[1].signed_url # Undef
             /\ videos'[1].duration # Undef
             /\ videos'[1].signed_url_loading = F
             /\ last'.sign =>
                   \E t \in BagToSet(tasks') :
                      /\ t.kind = "insertRefetch" /\ t.id = last'.id
                      /\ tasks' = Started(t)
       /\ last'.op = "InsertRefetchError" => videos' = videos]_vars

\* every row is completed and has a bucket_path
AllCompleted(rows) ==
    \A i \in 1..Len(rows) :
        rows[i].status = "completed" /\ ~IsNull(rows[i].bucket_path)

\* the collection is the rows, each with a URL and not loading
HoldsResolved(vs, rows) ==
    /\ Len(vs) = Len(rows)
    /\ \A i \in 1..Len(rows) :
          /\ vs[i] = [rows[i] EXCEPT !.signed_url = vs[i].signed_url,
                                     !.signed_url_loading = F]
          /\ ~IsNull(vs[i].signed_url)

\* C13: when a reset fetch into an empty collection has got fewer than
\* VIDEOS_PER_PAGE rows, all completed with a bucket_path, and every
\* resolution has succeeded, the collection holds exactly those rows, each
\* with a signed_url and signed_url_loading false, and hasMore and loading
\* are false.
C13_ResetFetchOfCompletedRows ==
    [][\A t \in InFlight :
          (/\ t.kind = "fetchProcess" /\ t.reset /\ tasks' = Finished(t)
           /\ last'.op = "FetchComplete" /\ last'.sign
           /\ videos = <<>>
           /\ Len(t.rows) < VIDEOS_PER_PAGE /\ AllCompleted(t.rows))
          => HoldsResolved(videos', t.rows) /\ ~hasMore' /\ ~loading']_vars

\* such a reset fetch has ended with all the rows of the table
C13_ThreeResolved ==
    /\ last.op = "FetchComplete" /\ last.arg = "reset" /\ last.sign
    /\ Len(videos) = NumReels /\ AllCompleted(videos)
    /\ \A i \in 1..Len(videos) : ~IsNull(videos[i].signed_url)
    /\ ~hasMore /\ ~loading

\* C14: after a successful reset fetch the collection is the returned
\* page, row for row in the order of the answer, and so sorted by
\* created_at descending with id descending as tie-break.
C14_ResetFetchKeepsOrder ==
    [][\A t \in InFlight :
          (/\ t.kind = "fetchProcess" /\ t.reset /\ tasks' = Finished(t)
           /\ last'.op = "FetchComplete" /\ Len(t.rows) <= VIDEOS_PER_PAGE)
          => /\ Len(videos') = Len(t.rows)
             /\ \A i \in 1..Len(t.rows) : videos'[i].id = t.rows[i].id
             /\ \A i, j \in 1..Len(videos') :
                   i < j => Before(videos'[i], videos'[j])]_vars

\* a reset fetch has ended over a table that is not stored in query order
C14_FetchedUnsortedTable ==
    /\ last.op = "FetchComplete" /\ last.arg = "reset"
    /\ Len(videos) = NumReels
    /\ backend # Ordered(backend)
    /\ \E i \in 1..(Len(videos) - 1) :
          CreatedAt(videos[i].id) = CreatedAt(videos[i + 1].id)

\* C15: a DELETE event removes the entry of its id if there is one and
\* leaves the other entries as they are, in their order; for an id that is
\* not in the collection, because an earlier DELETE removed it or because
\* it never was there, the collection stays as it is.
C15_DeleteEventIdempotent ==
    [][last'.op = "OnDelete" =>
          /\ \A i \in 1..Len(videos') : videos'[i].id # last'.id
          /\ \E drop \in SUBSET (1..Len(videos)) :
                /\ \A i \in 1..Len(videos) : i \in drop <=> videos[i].id = last'.id
                /\ Len(videos') = Len(videos) - Cardinality(drop)
                /\ \A i \in 1..Len(videos') :
                      videos'[i] = videos[i + Cardinality({d \in drop : d <= i})]
          /\ (~last'.pre => videos' = videos)]_vars

\* a DELETE came again for a row that an earlier DELETE had removed
C15_DeletedTwice ==
    /\ last.op = "OnDelete" /\ ~last.pre
    /\ last.id \in IdsOf(backend)
    /\ Len(videos) = NumReels - 1

\* C16: when the store's listener handles SIGNED_OUT, and when the effect
\* runs for a user that has become null, the store holds no channel
\* afterwards, the collection is empty, offsetRef is 0 and hasMore is true.
C16_SignOutResets ==
    [][(\/ last'.op = "SIGNED_OUT" /\ listening
        \/ last'.op = "EffectRun" /\ ~authLoading /\ user = NoUser)
       => /\ channels' = {}
          /\ videos' = <<>>
          /\ offsetRef' = 0
          /\ hasMore']_vars

\* the listener has handled SIGNED_OUT for a store that held entries
C16_SignedOutWithEntries ==
    /\ last.op = "SIGNED_OUT" /\ last.pre
    /\ videos = <<>> /\ channels = {} /\ unsubscribeRealtime = NotSet

\* C17: the store holds at most one channel; after a SIGNED_IN of another
\* user than the one the store was subscribed for, its channel is on the
\* new user's topic; the reset fetch that a channel's SUBSCRIBED status
\* starts queries the records of the user of that channel's topic.
C17_NewUserChannelAndFetch ==
    [][/\ Cardinality(channels') <= 1
       /\ (last'.op = "SIGNED_IN" /\ last'.pre) =>
             \A c \in channels' : c.topic = user'
       /\ (last'.op = "ChannelSubscribed" /\ last'.pre) =>
             \A t \in BagToSet(tasks') :
                (t.kind = "fetchQuery" /\ tasks' = Started(t)) =>
                    \A c \in channels : t.user = c.topic]_vars

\* C18: when the query of a reset or append fetch answers with an error
\* or throws, error holds a message, loading and loadingMore are false
\* and the collection is the one before; the start of a fetch does not
\* change the collection either.
C18_FailedFetchKeepsCollection ==
    [][/\ last'.op \in {"FetchQueryError", "FetchQueryThrow"} =>
             /\ error' \notin {Null, Undef, ""}
             /\ ~loading' /\ ~loadingMore'
             /\ videos' = videos
       /\ last'.op \in {"Refetch", "LoadMore", "ChannelSubscribed"} =>
             videos' = videos]_vars

\* an append fetch has failed over a collection that holds entries, while
\* a reset fetch was in flight
C18_AppendFailedWithEntries ==
    /\ last.op \in {"FetchQueryError", "FetchQueryThrow"} /\ last.arg = "append"
    /\ videos # <<>> /\ error = "msg" /\ ~loading /\ ~loadingMore
    /\ \E t \in InFlight : IsFetch(t) /\ t.reset

\* refreshVideoSignedUrl finds an entry it can renew
Renewable(id) ==
    \E i \in 1..Len(videos) :
        /\ videos[i].id = id /\ videos[i].status = "completed"
        /\ ~IsNull(videos[i].bucket_path) /\ videos[i].bucket_path # ""

\* C19: refreshVideoSignedUrl(id) leaves the collection as it is and calls
\* no resolver when the entry is missing, not completed or without a
\* bucket_path; it leaves the collection as it is when the resolver
\* fails; when the resolver succeeds it stores the new URL on the entry
\* of that id and changes no other entry and no other field.
C19_RefreshStoresOnOneEntry ==
    [][/\ last'.op = "RefreshStart" =>
             /\ videos' = videos
             /\ (~Renewable(last'.id) => tasks' = tasks)
       /\ last'.op = "RefreshError" => videos' = videos
       /\ last'.op = "RefreshOk" =>
             /\ Len(videos') = Len(videos)
             /\ \A i \in 1..Len(videos) :
                   IF videos[i].id = last'.id
                   THEN /\ videos'[i] = [videos[i] EXCEPT !.signed_url = "url2"]
                   ELSE videos'[i] = videos[i]]_vars

\* a renewal has stored its URL on one of several entries
C19_RenewedOneOfThree ==
    /\ last.op = "RefreshOk"
    /\ Len(videos) = NumReels
    /\ \E i, j \in 1..Len(videos) :
          /\ videos[i].id = last.id /\ videos[i].signed_url = "url2"
          /\ videos[j].signed_url # "url2"

\* C20: the merge of an UPDATE event, the write of its point fetch and the
\* writes around its resolution leave the collection as it is when the
\* event's id is not in the collection: no step of the handler adds an
\* entry.
C20_UpdateNeverAdds ==
    [][(/\ last'.op \in {"OnUpdate", "UpdateRefetchData", "UpdateRefetchError",
                         "UpdateSignDone"}
        /\ ~Exists(videos, last'.id))
       => videos' = videos]_vars

\* the resolution of an UPDATE for an unknown id has succeeded while the
\* collection held the rows of the table
C20_StrayUpdateResolved ==
    /\ last.op = "UpdateSignDone" /\ last.arg = T
    /\ ~Exists(videos, last.id)
    /\ Len(videos) = NumReels

\* C21: at most one query of fetchBalance is in flight, and the busy flag
\* is set exactly while one is: a call of fetchBalance made while a query
\* is in flight starts no query, and the end of the query, with data or
\* with an error, clears the flag.
C21_OneBalanceQuery ==
    /\ [](balanceTasks <= 1 /\ (fetchingRef <=> balanceTasks = 1))
    /\ [][/\ balanceTasks > 0 => balanceTasks' <= balanceTasks
          /\ last'.op \in {"BalanceQueryData", "BalanceQueryError"}
                => ~fetchingRef' /\ balanceTasks' = 0]_vars

\* refetch was called while a query was in flight
C21_RefetchWhileBusy ==
    /\ last.op = "BalanceRefetch" /\ last.pre
    /\ fetchingRef /\ balanceTasks = 1

\* C22: the step that handles SIGNED_OUT in the hook's listener, and the
\* run of the effect with no user, leave the cached balance null; an UPDATE
\* broadcast whose record has a balance leaves the cached balance equal to
\* that balance.
C22_BalanceClearedAndUpdated ==
    [][/\ (last'.op = "SIGNED_OUT" /\ balanceListening) => balance' = Null
       /\ (last'.op = "BalanceEffectRun" /\ ~authLoading /\ user = NoUser)
             => balance' = Null
       /\ (last'.op = "BalanceOnUpdate" /\ last'.arg # Undef)
             => balance' = last'.arg]_vars

\* a broadcast has stored its balance while no query was in flight
C22_BroadcastReplacedBalance ==
    /\ last.op = "BalanceOnUpdate"
    /\ last.arg = "5" /\ balance = "5"
    /\ balanceTasks = 0 /\ ~balanceLoading

\* the queries of reset fetches among the tasks b
ResetQueries(b) ==
    LET S == {t \in BagToSet(b) : t.kind = "fetchQuery" /\ t.reset}
    IN BagCardinality([t \in S |-> b[t]])

\* C23: a SUBSCRIBED status received while the subscribed flag is false
\* starts one reset fetch and sets the flag; received while the flag is true
\* it starts nothing; and on the subscription path (effect, auth listener,
\* channel status) no other step starts a reset fetch.
C23_ResetFetchOnFirstSubscribed ==
    [][/\ (last'.op = "ChannelSubscribed" /\ ~isSubscribed)
             => /\ ResetQueries(tasks') = ResetQueries(tasks) + 1
                /\ BagCardinality(tasks') = BagCardinality(tasks) + 1
                /\ isSubscribed'
       /\ (last'.op = "ChannelSubscribed" /\ isSubscribed)
             => tasks' = tasks /\ isSubscribed'
       /\ ResetQueries(tasks') > ResetQueries(tasks)
             => last'.op = "ChannelSubscribed"]_vars

\* SUBSCRIBED has come again while the flag was true and the first fetch
\* had completed
C23_RepeatedSubscribed ==
    /\ last.op = "ChannelSubscribed" /\ ~last.pre
    /\ isSubscribed
    /\ tasks = EmptyBag
    /\ ~loading

C25_EmptyWhileSignedOut ==
    user = NoUser => videos = <<>>

\* C26: when a reset fetch stores its result right after a DELETE
\* broadcast was applied, during the fetch, for a row that is gone from the
\* table, the collection does not hold that row again.
C26_ResetFetchKeepsAppliedDelete ==
    [][(/\ last'.op = "FetchComplete" /\ last'.arg = "reset"
        /\ last.op = "OnDelete")
       => ~Exists(videos', last.id)]_vars

\* C27: when a DELETE broadcast has removed an entry, the next step of a
\* handler that was in flight for the same id (the write of an INSERT
\* backfill, of an UPDATE point fetch or of a URL resolution) leaves the
\* collection without an entry of that id.
C27_DeletedIdStaysOut ==
    [][(/\ last.op = "OnDelete" /\ last.pre
        /\ last'.op \in {"InsertRefetchData", "UpdateRefetchData", "UpdateSignDone"}
        /\ last'.id = last.id)
       => ~Exists(videos', last.id)]_vars

\* C28: whenever a user is signed in and the session restore has
\* returned, the loading flag is false at some later time, whatever the
\* channel reports.
C28_LoadingEndsWithoutSubscribed ==
    (~authLoading /\ user # NoUser) ~> ~loading

\* C29: no step of the UPDATE handler (the merge of an event, the write of
\* its point fetch, the write after a resolution) takes an entry that
\* stays in the collection from completed or failed to queued or
\* processing, in whatever order events and answers arrive.
C29_StatusNeverRegresses ==
    [][last'.op \in {"OnUpdate", "UpdateRefetchData", "UpdateSignDone"}
       => \A i \in 1..Len(videos), j \in 1..Len(videos') :
             (/\ videos[i].id = videos'[j].id
              /\ videos[i].status \in {"completed", "failed"})
             => videos'[j].status \notin {"queued", "processing"}]_vars

\* C30: when an append fetch completes, the collection is the previous
\* collection followed by the fetched rows whose id it did not hold, in the
\* page's order, and the page cursor is the length of the collection.
C30_AppendSkipsHeldIds ==
    [][(last'.op = "FetchComplete" /\ last'.arg = "append")
       => /\ offsetRef' = Len(videos')
          /\ Len(videos') >= Len(videos)
          /\ SubSeq(videos', 1, Len(videos)) = videos
          /\ \A j \in (Len(videos) + 1)..Len(videos') : ~Exists(videos, videos'[j].id)
          /\ \E t \in InFlight :
                /\ t.kind = "fetchProcess" /\ ~t.reset
                /\ tasks' = Finished(t)
                /\ IdsOf(videos') = IdsOf(videos) \cup IdsOf(t.rows)
                /\ Len(videos') = Len(videos) + Cardinality(IdsOf(t.rows) \ IdsOf(videos))]_vars

\* an append fetch has completed with a page the collection already held:
\* nothing was added and the cursor is the collection's length
C30_AppendOfHeldPage ==
    /\ last.op = "FetchComplete" /\ last.arg = "append" /\ last.pre
    /\ Len(videos) = VIDEOS_PER_PAGE
    /\ offsetRef = VIDEOS_PER_PAGE

\* C31: when nothing is in flight and hasMore is false, the collection of
\* a signed-in user holds every row of the table.
C31_PagingReachesEveryRow ==
    (tasks = EmptyBag /\ ~hasMore /\ user # NoUser)
        => IdsOf(backend) \subseteq IdsOf(videos)

\* C32: while a reset fetch is in flight loading is true, and while an
\* append fetch is in flight loadingMore is true.
C32_FlagsCoverFetches ==
    /\ FetchesInFlight(TRUE) > 0 => loading
    /\ FetchesInFlight(FALSE) > 0 => loadingMore

\* C33: a call of fetchVideos made while no user is signed in (a manual
\* reset fetch, or loadMore past its guard) starts no query and leaves the
\* collection empty and loading false.
C33_NoUserFetchEmpties ==
    [][(/\ user = NoUser
        /\ \/ last'.op = "Refetch"
           \/ last'.op = "LoadMore" /\ last'.pre)
       => /\ tasks' = tasks
          /\ ~loading'
          /\ videos' = <<>>]_vars

\* C34: an INSERT broadcast for an id the collection holds keeps the
\* length and the order of the collection and every other entry, writes
\* the event's status on the entry, and makes signed_url_loading true on
\* it only if the entry is then completed without a signed_url.
C34_InsertMergesInPlace ==
    [][(last'.op = "OnInsert" /\ last'.pre)
       => /\ Len(videos') = Len(videos)
          /\ \A i \in 1..Len(videos) :
                IF videos[i].id = last'.id
                THEN /\ videos'[i].id = last'.id
                     /\ videos'[i].status = last'.arg
                     /\ (videos'[i].signed_url_loading = T
                            /\ videos[i].signed_url_loading # T)
                           => /\ videos'[i].status = "completed"
                              /\ ~Truthy(videos'[i].signed_url)
                ELSE videos'[i] = videos[i]]_vars

\* an INSERT has changed the status of the last of three entries
C34_MergedLastEntry ==
    /\ last.op = "OnInsert" /\ last.pre
    /\ Len(videos) = NumReels
    /\ videos[NumReels].id = last.id
    /\ videos[NumReels].status = "failed"
    /\ \E i \in 1..NumReels : backend[i].id = last.id /\ backend[i].status = "completed"

\* C35: when a reset fetch completes, whether resolutions failed or not,
\* the collection has one entry per fetched row in the fetched order, each
\* not loading and equal to its row but for the URL; the URL of a
\* completed row is the resolved one or, after a failure, the one the row
\* had (or null), and the URL of any other row is null.
C35_FailedResolutionKeepsPage ==
    [][(last'.op = "FetchComplete" /\ last'.arg = "reset")
       => \E t \in InFlight :
             /\ t.kind = "fetchProcess" /\ t.reset
             /\ tasks' = Finished(t)
             /\ Len(videos') = Len(t.rows)
             /\ \A i \in 1..Len(t.rows) :
                   /\ [videos'[i] EXCEPT !.signed_url = Null]
                         = [t.rows[i] EXCEPT !.signed_url = Null, !.signed_url_loading = F]
                   /\ IF t.rows[i].id \in Resolvable(t.rows)
                      THEN videos'[i].signed_url
                              \in {"url", Nullish(t.rows[i].signed_url, Null)}
                      ELSE videos'[i].signed_url = Null
             /\ ~last'.sign
                   => \E i \in 1..Len(t.rows) :
                         /\ t.rows[i].id \in Resolvable(t.rows)
                         /\ videos'[i].signed_url = Nullish(t.rows[i].signed_url, Null)]_vars

\* a page of three completed rows was stored after one resolution
\* succeeded, one failed on a row with a stored URL and one failed on a
\* row without
C35_MixedResolutions ==
    /\ last.op = "FetchComplete" /\ ~last.sign
    /\ Len(videos) = NumReels
    /\ \E i, j, k \in 1..NumReels :
          /\ videos[i].signed_url = "url"
          /\ videos[j].signed_url = "dburl"
          /\ videos[k].signed_url = Null /\ videos[k].status = "completed"

\* ------------------------------------------------------------ one call of
\* processVideosWithSignedUrls, resolution by resolution
NumProcRows == 7

besidesProc == <<impl, backend, authVars, videos, pageVars, subVars, tasks, probe,
                 balVars, createVars, clientVars>>

\* the pages the call is given: rows 1..NumProcRows, each completed or not
ProcPages ==
    {[i \in 1..NumProcRows |-> Row(ToString(i), s[i], Null)] :
        s \in [1..NumProcRows -> {"completed", "processing"}]}

\* mutant: the slice has no end
ChunkOf_All(i, n) == (i + 1)..n

\* videosArray.slice(i, i + VIDEO_FETCH_CHUNK_SIZE), as 1-based indices
ChunkOf(i, n) ==
    (i + 1)..(IF i + VIDEO_FETCH_CHUNK_SIZE < n THEN i + VIDEO_FETCH_CHUNK_SIZE ELSE n)

\* the call: const updatedVideos = [], i = 0
ProcessStart(rows) ==
    /\ procRows = <<>>
    /\ procRows' = rows
    /\ procAt' = 0
    /\ procPending' = {}
    /\ procWaiting' = FALSE
    /\ chunkResults' = <<>>
    /\ updatedVideos' = <<>>
    /\ last' = Did("ProcessStart", "", FALSE, "")
    /\ UNCHANGED besidesProc

\* one turn of the loop up to its await: chunk.map(...) runs every callback
\* to its first await; a row that is not completed or has no bucket_path
\* has its result at once, the others have called getSignedUrlAndDownload
ChunkStart ==
    /\ procRows # <<>> /\ ~procWaiting /\ procAt < Len(procRows)
    /\ LET chunk == ChunkOf(procAt, Len(procRows))
       IN /\ procPending' = {k \in chunk : procRows[k].id \in Resolvable(procRows)}
          /\ chunkResults' = [k \in chunk |->
                 IF procRows[k].id \in Resolvable(procRows)
                 THEN procRows[k] ELSE ProcessVideo(procRows[k], FALSE)]
    /\ procWaiting' = TRUE
    /\ last' = Did("ChunkStart", "", procPending # {}, "")
    /\ UNCHANGED <<procRows, procAt, updatedVideos, besidesProc>>

\* getSignedUrlAndDownload of row k returns or throws
ResolveSettle(k, ok) ==
    /\ k \in procPending
    /\ procPending' = procPending \ {k}
    /\ chunkResults' = [chunkResults EXCEPT ![k] = ProcessVideo(procRows[k], ok)]
    /\ last' = Did("ResolveSettle", procRows[k].id, FALSE, "")
    /\ UNCHANGED <<procRows, procAt, procWaiting, updatedVideos, besidesProc>>

\* Promise.all has settled: updatedVideos.push(...chunkResults), i += size
ChunkDone ==
    /\ procWaiting /\ procPending = {}
    /\ updatedVideos' = updatedVideos \o
          [j \in 1..Cardinality(DOMAIN chunkResults) |-> chunkResults[procAt + j]]
    /\ procAt' = procAt + VIDEO_FETCH_CHUNK_SIZE
    /\ procWaiting' = FALSE
    /\ chunkResults' = <<>>
    /\ last' = Did("ChunkDone", "", FALSE, "")
    /\ UNCHANGED <<procRows, procPending, besidesProc>>

\* return updatedVideos
ProcessReturn ==
    /\ procRows # <<>> /\ ~procWaiting /\ procAt >= Len(procRows)
    /\ procRows' = <<>>
    /\ procAt' = 0
    /\ last' = Did("ProcessReturn", "", Len(updatedVideos) = Len(procRows), "")
    /\ UNCHANGED <<procPending, procWaiting, chunkResults, updatedVideos, besidesProc>>

ChunkNext ==
    \/ \E rows \in ProcPages : ProcessStart(rows)
    \/ ChunkStart
    \/ \E k \in 1..NumProcRows, ok \in BOOLEAN : ResolveSettle(k, ok)
    \/ ChunkDone
    \/ ProcessReturn

\* one store, nothing in the table
HookInit == InitStore /\ impl = "useVideos" /\ backend = <<>>

ChunkSpec == HookInit /\ [][ChunkNext]_vars

\* C36: during one call of processVideosWithSignedUrls at most
\* VIDEO_FETCH_CHUNK_SIZE resolutions are in flight, all of them of the
\* chunk at the loop index, and a step that starts resolutions finds none
\* in flight and every row before the chunk in updatedVideos
C36_ChunkedResolutions ==
    /\ [](/\ Cardinality(procPending) <= VIDEO_FETCH_CHUNK_SIZE
          /\ procPending \subseteq (procAt + 1)..(procAt + VIDEO_FETCH_CHUNK_SIZE))
    /\ [][procPending' \ procPending # {}
             => /\ procPending = {}
                /\ Len(updatedVideos) = procAt
                /\ \A k \in procPending' : k > procAt]_vars

\* the second chunk of a page of seven completed rows is in flight, after a
\* first chunk that had five resolutions in flight together
C36_SecondChunkInFlight ==
    /\ procAt = VIDEO_FETCH_CHUNK_SIZE
    /\ procPending = (VIDEO_FETCH_CHUNK_SIZE + 1)..NumProcRows
    /\ Len(updatedVideos) = VIDEO_FETCH_CHUNK_SIZE
    /\ \A j \in 1..VIDEO_FETCH_CHUNK_SIZE : updatedVideos[j].status = "completed"

\* ------------------------------------------------------------ useBalance
\* across a change of account
\* the column balance of each user's row of profiles
ProfileBalance(u) == IF u = UserA THEN "5" ELSE "9"

\* the query in flight answers with the row it asked for
BalanceQueryAnswer == BalanceQueryData(ProfileBalance(balanceQueryFor))

AccountNext ==
    \/ BalanceAuthInitialize
    \/ \E u \in {UserA, UserB} : BalanceSignedIn(u)
    \/ BalanceSignedOut
    \/ BalanceEffectRun
    \/ BalanceQueryAnswer
    \/ \E c \in balanceChannels : BalanceSubscribed(c)

AccountSpec == Init /\ [][AccountNext]_vars

\* C37: once the hook has run its effect for user B and no balance query is
\* in flight, the balance held is B's balance of the profiles table, also
\* when B became the user while a query for A was in flight
C37_BalanceOfActiveUser ==
    (user = UserB /\ balanceUser = UserB /\ ~balanceDeps /\ balanceTasks = 0)
        => balance = ProfileBalance(UserB)

\* ------------------------------------------------------------ the record
\* of a broadcast event
\* a broadcast event as the handlers read it, through event?.payload?.x and
\* event?.x: a payload that is missing reads like one without keys
NoPayload == [record |-> NoRec, old_record |-> NoRec, id |-> Undef, user_id |-> Undef]

BroadcastEvents ==
    {[payload |-> [record |-> r, old_record |-> o, id |-> pi, user_id |-> pu],
      id |-> ei, user_id |-> eu] :
        r \in {NoRec, Row("1", "processing", Null)},
        o \in {NoRec, [NoRec EXCEPT !.id = "1"]},
        pi \in {Undef, "1"}, pu \in {Undef, UserA},
        ei \in {Undef, "1"}, eu \in {Undef, UserA}}

\* the payload, or the event, taken as the record: its id and user_id
AsRecord(obj) == [NoRec EXCEPT !.id = obj.id, !.user_id = obj.user_id]

\* mutant: the event is the record as soon as it has an id
ExtractRecord_ById(event) ==
    IF event.payload.record # NoRec THEN event.payload.record
    ELSE IF Truthy(event.payload.id) THEN AsRecord(event.payload)
    ELSE IF Truthy(event.id) THEN AsRecord(event)
    ELSE NoRec

\* INSERT and UPDATE: payload.record, else the payload with id and user_id,
\* else the event with id and user_id, else return (NoRec)
ExtractRecord(event) ==
    IF event.payload.record # NoRec THEN event.payload.record
    ELSE IF Truthy(event.payload.id) /\ Truthy(event.payload.user_id)
         THEN AsRecord(event.payload)
    ELSE IF Truthy(event.id) /\ Truthy(event.user_id) THEN AsRecord(event)
    ELSE NoRec

\* DELETE: payload.record, else payload.old_record, else { id: payload.id },
\* else { id: event.id }, else null
ExtractDeleted(event) ==
    IF event.payload.record # NoRec THEN event.payload.record
    ELSE IF event.payload.old_record # NoRec THEN event.payload.old_record
    ELSE IF Truthy(event.payload.id) THEN [NoRec EXCEPT !.id = event.payload.id]
    ELSE IF Truthy(event.id) THEN [NoRec EXCEPT !.id = event.id]
    ELSE NoRec

\* the event names no record: for INSERT and UPDATE no payload.record and
\* neither the payload nor the event with both id and user_id; for DELETE
\* no record, no old_record and no id
NoRecordIn(kind, event) ==
    IF kind = "DELETE"
    THEN /\ event.payload.record = NoRec /\ event.payload.old_record = NoRec
         /\ event.payload.id = Undef /\ event.id = Undef
    ELSE /\ event.payload.record = NoRec
         /\ ~(event.payload.id # Undef /\ event.payload.user_id # Undef)
         /\ ~(event.id # Undef /\ event.user_id # Undef)

\* a broadcast handler from the event on: the record is extracted, and the
\* handler goes on if (record && record.id).  pre: the event names no
\* record; arg: INSERT, UPDATE or DELETE
Broadcast(c, kind, event) ==
    /\ Joined(c)
    /\ LET record == IF kind = "DELETE" THEN ExtractDeleted(event)
                     ELSE ExtractRecord(event)
       IN IF ~Truthy(record.id)
          THEN UNCHANGED <<videos, tasks, offsetRef>>
          ELSE IF kind = "INSERT"
               THEN IF impl = "useVideos" THEN useVideos_OnInsert(record)
                    ELSE VideoProvider_OnInsert(record)
          ELSE IF kind = "UPDATE"
               THEN /\ IF impl = "useVideos" THEN useVideos_OnUpdate(record)
                       ELSE VideoProvider_OnUpdate(record)
                    /\ UNCHANGED offsetRef
          ELSE /\ videos' = DeleteUpdater(videos, {record.id})
               /\ offsetRef' = IF impl = "VideoProvider"
                               THEN Len(DeleteUpdater(videos, {record.id}))
                               ELSE offsetRef
               /\ UNCHANGED tasks
    /\ last' = Did("Broadcast", Undef, NoRecordIn(kind, event), kind)
    /\ UNCHANGED <<impl, balVars, procVars, createVars, clientVars, backend, authVars, loading,
                   loadingMore, error, hasMore, subVars, probe>>

BroadcastNext ==
    \/ AuthInitialize
    \/ EffectRun
    \/ \E c \in channels : ChannelSubscribed(c)
    \/ \E t \in InFlight : FetchQueryData(t, QueryPage(backend, t.from))
    \/ \E t \in InFlight : FetchComplete(t, Resolvable(t.rows))
    \/ \E c \in channels, kind \in {"INSERT", "UPDATE", "DELETE"} :
          \E event \in BroadcastEvents \cup {[payload |-> NoPayload, id |-> Undef,
                                              user_id |-> Undef]} :
             Broadcast(c, kind, event)
    \/ \E t \in InFlight : \E data \in Rows(t.id) : InsertRefetchData(t, data)
    \/ \E t \in InFlight : \E data \in Rows(t.id) : UpdateRefetchData(t, data)
    \/ \E t \in InFlight, ok \in BOOLEAN : UpdateSignDone(t, ok)

BroadcastSpec == MergeInit /\ [][BroadcastNext]_vars

\* C38: a broadcast event that names no record leaves the collection, the
\* page cursor, the flags and the handlers in flight as they were
C38_EventWithoutRecordDropped ==
    [][(last'.op = "Broadcast" /\ last'.pre)
          => /\ videos' = videos
             /\ pageVars' = pageVars
             /\ tasks' = tasks]_vars

\* a DELETE event without a record reached a subscribed store that held
\* its page
C38_DroppedOnHeldPage ==
    /\ last.op = "Broadcast" /\ last.pre /\ last.arg = "DELETE"
    /\ Len(videos) = NumReels
    /\ isSubscribed

\* ------------------------------------------------------------ the two
\* stores mounted together, on the one supabase client of lib/supabase
\* initializeAuth() as both hooks see it
ClientAuthInitialize ==
    /\ authLoading
    /\ \E u \in {NoUser, UserA} : user' = u
    /\ authLoading' = FALSE
    /\ depsChanged' = TRUE
    /\ balanceDeps' = TRUE
    /\ last' = Did("AuthInitialize", Undef, FALSE, Undef)
    /\ UNCHANGED <<impl, backend, videos, pageVars, subVars, tasks, probe, procVars,
                   createVars, clientVars, balanceFetchVars, balanceSubVars>>

\* SIGNED_IN once both effects have run without a user: no hook has a
\* listener registered, AuthProvider's callback stores the user
ClientSignedIn ==
    /\ user = NoUser /\ ~authLoading /\ notifying = {}
    /\ ~listening /\ ~balanceListening
    /\ user' = UserA
    /\ depsChanged' = TRUE
    /\ balanceDeps' = TRUE
    /\ last' = Did("SIGNED_IN", Undef, FALSE, Undef)
    /\ UNCHANGED <<impl, backend, authLoading, videos, pageVars, subVars, tasks, probe,
                   procVars, createVars, clientVars, balanceFetchVars, balanceSubVars>>

\* supabase.auth publishes SIGNED_OUT: AuthProvider's callback, registered
\* first, stores the null user; the callbacks of the hooks follow in the
\* same notification
ClientSignedOut ==
    /\ user # NoUser /\ notifying = {}
    /\ user' = NoUser
    /\ depsChanged' = TRUE
    /\ balanceDeps' = TRUE
    /\ notifying' = {s \in {"videos", "balance"} :
                        IF s = "videos" THEN listening ELSE balanceListening}
    /\ last' = Did("SIGNED_OUT", Undef, FALSE, Undef)
    /\ UNCHANGED <<impl, backend, authLoading, videos, pageVars, subVars, tasks, probe,
                   procVars, createVars, balanceFetchVars, balanceSubVars>>

\* the video store's callback with SIGNED_OUT: supabase.removeAllChannels()
\* empties the client's channels, those of the balance hook with them.
\* pre: the balance hook had a channel
StoreListenerSignedOut ==
    /\ "videos" \in notifying
    /\ notifying' = notifying \ {"videos"}
    /\ StoreAuthListener("SIGNED_OUT", NoUser)
    /\ balanceChannels' = {}
    /\ last' = Did("StoreListener", Undef, balanceChannels # {}, Undef)
    /\ UNCHANGED <<impl, backend, authVars, tasks, probe, procVars, createVars,
                   balanceFetchVars, balanceDeps, balanceUser, balanceUnsubscribe,
                   balanceIsSubscribed, balanceListening>>

\* the balance hook's callback with SIGNED_OUT: supabase.removeAllChannels()
\* empties the client's channels, those of the video store with them.
\* pre: the video store had a channel
BalanceListenerSignedOut ==
    /\ "balance" \in notifying
    /\ notifying' = notifying \ {"balance"}
    /\ BalanceAuthListener("SIGNED_OUT", NoUser)
    /\ channels' = {}
    /\ last' = Did("BalanceListener", Undef, channels # {}, Undef)
    /\ UNCHANGED <<impl, backend, authVars, videos, pageVars, effUser,
                   unsubscribeRealtime, isSubscribed, listening, tasks, probe,
                   procVars, createVars, balanceDeps>>

ClientNext ==
    \/ ClientAuthInitialize
    \/ ClientSignedIn
    \/ ClientSignedOut
    \/ StoreListenerSignedOut
    \/ BalanceListenerSignedOut
    \/ notifying = {} /\ EffectRun
    \/ notifying = {} /\ BalanceEffectRun
    \/ notifying = {} /\ \E c \in channels : ChannelSubscribed(c)
    \/ notifying = {} /\ \E c \in balanceChannels : BalanceSubscribed(c)
    \/ notifying = {} /\ \E t \in InFlight : FetchQueryData(t, QueryPage(backend, t.from))
    \/ notifying = {} /\ \E t \in InFlight : FetchComplete(t, Resolvable(t.rows))
    \/ notifying = {} /\ BalanceQueryAnswer

ClientSpec == Init /\ [][ClientNext]_vars

\* the steps of the video store, and those of the balance hook
VideoStoreOps ==
    {"EffectRun", "ChannelSubscribed", "FetchQueryData", "FetchComplete", "StoreListener"}

BalanceStoreOps ==
    {"BalanceEffectRun", "BalanceSubscribed", "BalanceQueryData", "BalanceListener"}

\* C39: a step of the video store leaves the balance hook's channel and
\* subscribed flag as they were, and a step of the balance hook leaves the
\* video store's channel and subscribed flag as they were
C39_StoresIndependent ==
    [][/\ last'.op \in VideoStoreOps
            => balanceChannels' = balanceChannels
               /\ balanceIsSubscribed' = balanceIsSubscribed
       /\ last'.op \in BalanceStoreOps
            => channels' = channels /\ isSubscribed' = isSubscribed]_vars

\* ------------------------------------------------------------ DashboardScreen:
\* the video-creation request
MaxRequests == 2

besidesCreate == <<impl, backend, authVars, videos, pageVars, subVars, tasks, probe,
                   balVars, procVars, clientVars>>

\* a run of handleConfirmVoiceAndSubmit from its fetch call on:
\*   net     the HTTP request: inflight, responded, failed or aborted
\*   timer   the setTimeout of REQUEST_TIMEOUT_MS, which nothing clears
\*   outcome what settled the handler's await: awaiting, or response,
\*           network, timeout, abort
NewRequest == [net |-> "inflight", timer |-> "armed", outcome |-> "awaiting"]

\* the handler leaves its await with an error: the catch shows the message
\* and finally clears the flag, each only if (isMountedRef.current)
CreateFailed(message) ==
    IF isMountedRef
    THEN alert' = message /\ creatingVideo' = FALSE
    ELSE UNCHANGED <<alert, creatingVideo>>

\* the confirm button, disabled while creatingVideo; the guards passed:
\* setCreatingVideo(true), a new AbortController, fetch raced with the timer
CreateSubmit ==
    /\ isMountedRef /\ ~creatingVideo
    /\ Len(requests) < MaxRequests
    /\ creatingVideo' = TRUE
    /\ abortControllerRef' = Len(requests) + 1
    /\ requests' = Append(requests, NewRequest)
    /\ last' = Did("CreateSubmit", Undef, FALSE, Undef)
    /\ UNCHANGED <<isMountedRef, alert, besidesCreate>>

\* REQUEST_TIMEOUT_MS have passed since the fetch call: the timer rejects
\* the race.  A race still pending throws "Request timeout", reported as
\* "Request timed out. ..."; the fetch is left as it is
CreateTimeout(i) ==
    /\ i \in 1..Len(requests) /\ requests[i].timer = "armed"
    /\ IF requests[i].outcome = "awaiting"
       THEN /\ requests' = [requests EXCEPT ![i].timer = "fired", ![i].outcome = "timeout"]
            /\ CreateFailed("timeout")
       ELSE /\ requests' = [requests EXCEPT ![i].timer = "fired"]
            /\ UNCHANGED <<alert, creatingVideo>>
    /\ last' = Did("CreateTimeout", Undef, requests[i].outcome = "awaiting", Undef)
    /\ UNCHANGED <<isMountedRef, abortControllerRef, besidesCreate>>

\* the server answers; ok: the response and its body say ok.  A race still
\* pending goes on with the response: the success alert, or an error
CreateResponse(i, ok) ==
    /\ i \in 1..Len(requests) /\ requests[i].net = "inflight"
    /\ IF requests[i].outcome = "awaiting"
       THEN /\ requests' = [requests EXCEPT ![i].net = "responded", ![i].outcome = "response"]
            /\ IF ok
               THEN /\ alert' = "success"
                    /\ creatingVideo' = IF isMountedRef THEN FALSE ELSE creatingVideo
               ELSE CreateFailed("error")
       ELSE /\ requests' = [requests EXCEPT ![i].net = "responded"]
            /\ UNCHANGED <<alert, creatingVideo>>
    /\ last' = Did("CreateResponse", Undef, requests[i].outcome = "awaiting", Undef)
    /\ UNCHANGED <<isMountedRef, abortControllerRef, besidesCreate>>

\* fetch rejects with TypeError "Network request failed"
CreateNetworkError(i) ==
    /\ i \in 1..Len(requests) /\ requests[i].net = "inflight"
    /\ IF requests[i].outcome = "awaiting"
       THEN /\ requests' = [requests EXCEPT ![i].net = "failed", ![i].outcome = "network"]
            /\ CreateFailed("network")
       ELSE /\ requests' = [requests EXCEPT ![i].net = "failed"]
            /\ UNCHANGED <<alert, creatingVideo>>
    /\ last' = Did("CreateNetworkError", Undef, requests[i].outcome = "awaiting", Undef)
    /\ UNCHANGED <<isMountedRef, abortControllerRef, besidesCreate>>

\* the unmount cleanup: isMountedRef.current = false, then the controller
\* in abortControllerRef aborts its request and the ref is set to null; a
\* handler awaiting that request leaves through catch and finally unmounted
Unmount ==
    /\ isMountedRef
    /\ isMountedRef' = FALSE
    /\ abortControllerRef' = 0
    /\ requests' = [i \in 1..Len(requests) |->
          IF i = abortControllerRef /\ requests[i].net = "inflight"
          THEN [requests[i] EXCEPT !.net = "aborted",
                   !.outcome = IF requests[i].outcome = "awaiting" THEN "abort"
                               ELSE requests[i].outcome]
          ELSE requests[i]]
    /\ last' = Did("Unmount", Undef, abortControllerRef # 0, Undef)
    /\ UNCHANGED <<creatingVideo, alert, besidesCreate>>

CreateNext ==
    \/ CreateSubmit
    \/ \E i \in 1..MaxRequests : CreateTimeout(i)
    \/ \E i \in 1..MaxRequests, ok \in BOOLEAN : CreateResponse(i, ok)
    \/ \E i \in 1..MaxRequests : CreateNetworkError(i)
    \/ Unmount

CreateSpec == HookInit /\ [][CreateNext]_vars

\* C40: a creation request whose 30 seconds passed before it completed has
\* been aborted, and no request is in flight once the component is torn down
C40_TimedOutRequestAborted ==
    \A i \in 1..Len(requests) :
        /\ requests[i].outcome = "timeout" => requests[i].net = "aborted"
        /\ ~isMountedRef => requests[i].net # "inflight"

====
